---- MODULE Spec2Model ----
(***************************************************************************)
(* Heading classification and hierarchy refinement of the PDF outline      *)
(* extractor: HeadingClassifier (python-parser/src/heading_classifier.py)  *)
(* and PDFProcessor (pdf_processor.py).                                    *)
(*                                                                         *)
(* A text is a sequence of one-character strings, so that len(), strip(),  *)
(* split() and the regular expressions are computed character by           *)
(* character.  Font sizes are whole points.                                *)
(***************************************************************************)
EXTENDS Integers, Sequences, FiniteSets, TLC

VARIABLES
    candidates,   \* classify_headings: the headings as classified, before refinement
    headings,     \* classify_headings: the headings list (refinement rewrites it in place)
    prev,         \* the headings list as it was before the latest refinement pass
    passes,       \* number of _refine_heading_hierarchy calls made on headings
    font_metrics, \* font name -> list of the sizes seen in that font
    font_pages,   \* number of per-page size lists appended to font_metrics
    thresholds,   \* result of HeadingClassifier._calculate_font_thresholds
    thresholds_fast, \* result of PDFProcessor._calculate_thresholds_fast
    calculated,   \* the threshold calculators that have run
    filename,     \* the file name given for the title fallback
    cleaned,      \* result of HeadingClassifier._clean_filename(filename)
    cleaned_fast, \* result of PDFProcessor._clean_filename(filename)
    cleaned_done, \* both _clean_filename calls have returned
    pages_data,   \* the pages the extractor produced for the document
    called,       \* the entry path that has processed the document, or "none"
    nlp,          \* which of the optional NLP libraries the call found available
    result_title,   \* the title the call returned
    result_outline, \* the outline the call returned
    score_input,  \* _classify_text_as_heading: the five scores of a text
    score_level,  \* _classify_text_as_heading: the level decided, or "unset"
    library,      \* what the NLP library of the running service answers for each text
    first_call,   \* an earlier request to the service, with the response it got
    pdf_files,    \* process_pdfs.main: the stems of the PDF files found in the input directory
    file_index,   \* process_pdfs.main: iterations of the loop over pdf_files completed
    processed_count, \* process_pdfs.main: files whose result was written
    written,      \* the output directory: stem -> content of the stem's .json file
    main_pc,      \* process_pdfs.main: "start", "loop", "returned" or "raised"
    block_text,   \* the stripped text of the block _classify_page_headings has reached
    other_texts,  \* the texts of the other blocks of the document
    words_added,  \* words the extractor has added to block_text
    is_potential, \* _is_potential_heading(block_text): "True", "False", or "unset"
    block_pattern_score, \* result of _get_pattern_score(block_text, document_stats), or -1
    request,      \* the upload the /extract-headings handler has received
    response      \* the status code the handler answered, 0 before

varsRefine == <<candidates, headings, prev, passes>>
varsThresholds == <<font_metrics, font_pages, thresholds, thresholds_fast, calculated>>
varsFilename == <<filename, cleaned, cleaned_fast, cleaned_done>>
varsDoc == <<pages_data, called, nlp, result_title, result_outline>>
varsScores == <<score_input, score_level>>
varsCalls == <<library, first_call>>
varsBatch == <<pdf_files, file_index, processed_count, written, main_pc>>
varsText == <<block_text, other_texts, words_added, is_potential, block_pattern_score>>
varsService == <<request, response>>
varsOther == <<varsScores, varsCalls, varsBatch, varsText, varsService>>

vars == <<candidates, headings, prev, passes,
          font_metrics, font_pages, thresholds, thresholds_fast, calculated,
          filename, cleaned, cleaned_fast, cleaned_done,
          pages_data, called, nlp, result_title, result_outline,
          score_input, score_level, library, first_call,
          pdf_files, file_index, processed_count, written, main_pc,
          block_text, other_texts, words_added, is_potential, block_pattern_score,
          request, response>>

\* No scores have been handed to the level decision.
IdleScores ==
    /\ score_input = [pattern |-> 0, size |-> 0, bold |-> 0, isolation |-> 0, keyword |-> 0]
    /\ score_level = "unset"

\* The answers of a library that is never asked, and no request remembered.
NoLibrary == [tokenizer |-> FALSE, content |-> {}, nouns |-> <<>>]
NoCall == [served |-> FALSE, interleaved |-> FALSE, pages |-> <<>>, name |-> <<>>,
           title |-> <<>>, outline |-> <<>>]

IdleCalls ==
    /\ library = NoLibrary
    /\ first_call = NoCall

\* process_pdfs.main has not been started.
IdleBatch ==
    /\ pdf_files = <<>>
    /\ file_index = 0
    /\ processed_count = 0
    /\ written = <<>>
    /\ main_pc = "start"

\* No block has been reached by _classify_page_headings.
IdleText ==
    /\ block_text = <<>>
    /\ other_texts = <<>>
    /\ words_added = 0
    /\ is_potential = "unset"
    /\ block_pattern_score = -1

\* No upload has been received.
NoRequest == [filename |-> <<>>, size |-> 0, parsed |-> FALSE, failure |-> "none"]

IdleService ==
    /\ request = NoRequest
    /\ response = 0

\* The parts of the state that only the later specifications use are at rest.
IdleOther ==
    /\ IdleScores
    /\ IdleCalls
    /\ IdleBatch
    /\ IdleText
    /\ IdleService

-----------------------------------------------------------------------------
(* Bounds of the model *)

MaxHeadings == 12      \* longest list of classified headings
MaxLower == 1          \* headings of a list not classified H1
MaxLong == 1           \* headings of a list whose text has 30 characters or more
MaxFontPages == 4      \* per-page size lists appended to the font metrics
MaxNameLen == 4        \* longest file name typed character by character
MaxPages == 2          \* pages of a document
MaxBlocks == 2         \* text blocks of a document, over all its pages
MaxTitleSpans == 2     \* spans of the first page when the title scan runs on its own
MaxCallBlocks == 1     \* text blocks of the page of a request to the running service
MaxFiles == 2          \* PDF files in the input directory of a batch run
MaxWordsAdded == 2     \* words added to the text of a block under examination
MaxOtherTexts == 1     \* other blocks of the document of a block under examination

-----------------------------------------------------------------------------
(* Texts: Python str operations and the pieces of the regular expressions *)

LowerLetters == <<"a", "b", "c", "d", "e", "f", "g", "h", "i", "j", "k", "l", "m",
                  "n", "o", "p", "q", "r", "s", "t", "u", "v", "w", "x", "y", "z">>
UpperLetters == <<"A", "B", "C", "D", "E", "F", "G", "H", "I", "J", "K", "L", "M",
                  "N", "O", "P", "Q", "R", "S", "T", "U", "V", "W", "X", "Y", "Z">>
Lower == {LowerLetters[i] : i \in 1..Len(LowerLetters)}
Upper == {UpperLetters[i] : i \in 1..Len(UpperLetters)}
Letter == Lower \cup Upper
Digit == {"0", "1", "2", "3", "4", "5", "6", "7", "8", "9"}
Whitespace == {" "}                          \* \s, str.isspace()
WordChar == Letter \cup Digit \cup {"_"}      \* \w

LowerOf == [c \in Upper |-> LowerLetters[CHOOSE i \in 1..Len(UpperLetters) : UpperLetters[i] = c]]
UpperOf == [c \in Lower |-> UpperLetters[CHOOSE i \in 1..Len(LowerLetters) : LowerLetters[i] = c]]

lower_char(c) == IF c \in Upper THEN LowerOf[c] ELSE c
upper_char(c) == IF c \in Lower THEN UpperOf[c] ELSE c

\* str.lower()
lower(t) == [i \in 1..Len(t) |-> lower_char(t[i])]

\* First position from i on whose character is not in the class (Len(t) + 1 if none).
RECURSIVE SkipWhile(_, _, _)
SkipWhile(t, i, class) ==
    IF i <= Len(t) /\ t[i] \in class THEN SkipWhile(t, i + 1, class) ELSE i

\* First position from i on whose character is in the class (Len(t) + 1 if none).
RECURSIVE SkipUntil(_, _, _)
SkipUntil(t, i, class) ==
    IF i <= Len(t) /\ t[i] \notin class THEN SkipUntil(t, i + 1, class) ELSE i

\* Last position up to i whose character is not in the class (0 if none).
RECURSIVE SkipBack(_, _, _)
SkipBack(t, i, class) ==
    IF i >= 1 /\ t[i] \in class THEN SkipBack(t, i - 1, class) ELSE i

\* str.strip()
strip(t) == SubSeq(t, SkipWhile(t, 1, Whitespace), SkipBack(t, Len(t), Whitespace))

\* str.split(): the maximal runs of non-whitespace characters, from position i on.
RECURSIVE SplitFrom(_, _)
SplitFrom(t, i) ==
    LET a == SkipWhile(t, i, Whitespace)
        b == SkipUntil(t, a, Whitespace)
    IN  IF a > Len(t) THEN <<>>
        ELSE <<SubSeq(t, a, b - 1)>> \o SplitFrom(t, b)

split(t) == SplitFrom(t, 1)

\* ' '.join(words)
RECURSIVE join(_)
join(words) ==
    IF words = <<>> THEN <<>>
    ELSE IF Len(words) = 1 THEN words[1]
    ELSE words[1] \o <<" ">> \o join(Tail(words))

\* word[:1].upper() + word[1:], a capitalize() that forgets to lower the rest.
capitalize_KeepRest(w) ==
    IF w = <<>> THEN w
    ELSE <<upper_char(w[1])>> \o SubSeq(w, 2, Len(w))

\* str.capitalize(): first character upper-cased, the others lower-cased.
capitalize(w) ==
    [i \in 1..Len(w) |-> IF i = 1 THEN upper_char(w[i]) ELSE lower_char(w[i])]

\* filename.rsplit('.', 1)[0]
rsplit_dot(t) ==
    LET dots == {i \in 1..Len(t) : t[i] = "."}
    IN  IF dots = {} THEN t
        ELSE SubSeq(t, 1, (CHOOSE i \in dots : \A j \in dots : i >= j) - 1)

\* re.sub(r'[_-]', ' ', title)
sub_separators(t) == [i \in 1..Len(t) |-> IF t[i] \in {"_", "-"} THEN " " ELSE t[i]]

\* re.sub(r'\s+', ' ', title): every run of whitespace becomes one space.
RECURSIVE CollapseFrom(_, _)
CollapseFrom(t, i) ==
    IF i > Len(t) THEN <<>>
    ELSE IF t[i] \in Whitespace
    THEN <<" ">> \o CollapseFrom(t, SkipWhile(t, i, Whitespace))
    ELSE <<t[i]>> \o CollapseFrom(t, i + 1)

collapse_whitespace(t) == CollapseFrom(t, 1)

-----------------------------------------------------------------------------
(* Title fallback: _clean_filename of both classes *)

UntitledDocument == <<"U", "n", "t", "i", "t", "l", "e", "d", " ", "D", "o", "c", "u", "m", "e", "n", "t">>

\* HeadingClassifier._clean_filename
_clean_filename(name) ==
    IF name = <<>> THEN UntitledDocument
    ELSE LET title == sub_separators(rsplit_dot(name))
         IN  join([i \in 1..Len(split(title)) |-> capitalize(split(title)[i])])

\* PDFProcessor._clean_filename
_clean_filename_fast(name) ==
    IF name = <<>> THEN UntitledDocument
    ELSE LET title == strip(collapse_whitespace(sub_separators(rsplit_dot(name))))
             result == join([i \in 1..Len(split(title)) |-> capitalize(split(title)[i])])
         IN  IF result = <<>> THEN UntitledDocument ELSE result

NameChars == {"a", "B", "2", "_", "-", ".", " "}
SampleName == <<"a", "n", "n", "u", "a", "l", "_", "r", "e", "p", "o", "r", "t", "-", "2", "0", "2", "4", ".", "p", "d", "f">>
StartNames == {<<>>, SampleName}

\* The caller spells out the file name.
TypeChar(c) ==
    /\ ~cleaned_done
    /\ Len(filename) < MaxNameLen
    /\ filename' = Append(filename, c)
    /\ UNCHANGED <<cleaned, cleaned_fast, cleaned_done>>
    /\ UNCHANGED <<varsRefine, varsThresholds, varsDoc>>
    /\ UNCHANGED varsOther

\* extract_title line 174 and _extract_title_fast line 230 on the same file name.
CleanFilename ==
    /\ ~cleaned_done
    /\ cleaned' = _clean_filename(filename)
    /\ cleaned_fast' = _clean_filename_fast(filename)
    /\ cleaned_done' = TRUE
    /\ UNCHANGED filename
    /\ UNCHANGED <<varsRefine, varsThresholds, varsDoc>>
    /\ UNCHANGED varsOther

IdleFilename ==
    /\ filename = <<>>
    /\ cleaned = <<>>
    /\ cleaned_fast = <<>>
    /\ cleaned_done = FALSE

-----------------------------------------------------------------------------
(* The extracted document: pages of blocks of spans (pdf_parser.py,            *)
(* pdf_processor.py _extract_page_data_fast)                                   *)

\* The ASCII characters of codes 32 to 95 and of codes 123 to 126, in code order
\* (the lower-case letters have codes 97 to 122).
AsciiChars ==
    <<" ", "!", "\"", "#", "$", "%", "&", "'", "(", ")", "*", "+", ",",
      "-", ".", "/", "0", "1", "2", "3", "4", "5", "6", "7", "8", "9", ":",
      ";", "<", "=", ">", "?", "@", "A", "B", "C", "D", "E", "F", "G", "H",
      "I", "J", "K", "L", "M", "N", "O", "P", "Q", "R", "S", "T", "U", "V",
      "W", "X", "Y", "Z", "[", "\\", "]", "^", "_">>
AsciiTail == <<"{", "|", "}", "~">>

CopyrightSign == "©"

Chars == {AsciiChars[i] : i \in 1..Len(AsciiChars)} \cup Lower
             \cup {AsciiTail[i] : i \in 1..Len(AsciiTail)} \cup {CopyrightSign}

\* ord(c)
CodeOf == [c \in Chars |->
              IF c = CopyrightSign THEN 169
              ELSE IF c \in Lower
              THEN 96 + CHOOSE i \in 1..Len(LowerLetters) : LowerLetters[i] = c
              ELSE IF \E i \in 1..Len(AsciiTail) : AsciiTail[i] = c
              THEN 122 + CHOOSE i \in 1..Len(AsciiTail) : AsciiTail[i] = c
              ELSE 31 + CHOOSE i \in 1..Len(AsciiChars) : AsciiChars[i] = c]

\* a < b for Python strings: the first differing character decides, a proper
\* prefix is smaller.
RECURSIVE StrLessFrom(_, _, _)
StrLessFrom(a, b, i) ==
    IF i > Len(b) THEN FALSE
    ELSE IF i > Len(a) THEN TRUE
    ELSE IF a[i] = b[i] THEN StrLessFrom(a, b, i + 1)
    ELSE CodeOf[a[i]] < CodeOf[b[i]]

StrLess(a, b) == StrLessFrom(a, b, 1)

\* w in t for strings
Contains(t, w) ==
    \E i \in 1..(Len(t) - Len(w) + 1) : \A k \in 1..Len(w) : t[i + k - 1] = w[k]

\* str.isupper(): some cased character, and no lower-case one
isupper(t) ==
    /\ \E i \in 1..Len(t) : t[i] \in Upper
    /\ \A i \in 1..Len(t) : t[i] \notin Lower

\* c.isalnum()
isalnum(c) == c \in Letter \cup Digit

Span(text, size, font, bold) ==
    [text |-> text, size |-> size, font |-> font, is_bold |-> bold]

\* _process_text_block / _extract_page_data_fast: the text of a block is the texts of
\* its spans, each followed by a space, stripped.
RECURSIVE SpanTexts(_)
SpanTexts(spans) ==
    IF spans = <<>> THEN <<>>
    ELSE spans[1].text \o <<" ">> \o SpanTexts(Tail(spans))

Block(spans) == [text |-> strip(SpanTexts(spans)), spans |-> spans]

TitleSpan == Span(<<"D", "o", "c", "u", "m", "e", "n", "t", " ", "T", "i",
                   "t", "l", "e">>,
                  24, "Helvetica", FALSE)
ChapterSpan == Span(<<"C", "h", "a", "p", "t", "e", "r", " ", "1", ":", " ",
                     "G", "e", "t", "t", "i", "n", "g", " ", "S", "t", "a",
                     "r", "t", "e", "d">>,
                    18, "Helvetica", FALSE)
SectionSpan == Span(<<"1", ".", "1", " ", "I", "n", "t", "r", "o", "d", "u",
                     "c", "t", "i", "o", "n">>,
                    14, "Helvetica", FALSE)
ParagraphSpan == Span(<<"T", "h", "i", "s", " ", "i", "s", " ", "r", "e",
                       "g", "u", "l", "a", "r", " ", "p", "a", "r", "a",
                       "g", "r", "a", "p", "h", " ", "t", "e", "x", "t",
                       ".">>,
                      12, "Helvetica", FALSE)
CaptionSpan == Span(<<"F", "i", "g", "u", "r", "e", " ", "3", ":", " ", "R",
                     "e", "v", "e", "n", "u", "e", " ", "b", "y", " ", "Q",
                     "u", "a", "r", "t", "e", "r">>,
                    24, "Helvetica-Bold", TRUE)
UpperCaptionSpan == Span(<<"T", "A", "B", "L", "E", " ", "2">>, 18, "Helvetica-Bold", TRUE)
PageNumberSpan == Span(<<"1", "2">>, 10, "Helvetica", FALSE)
\* A heading made of a stop word.
AboutSpan == Span(<<"A", "b", "o", "u", "t">>, 14, "Helvetica", FALSE)
\* A line of body text that does not end a sentence.
BodySpan == Span(<<"b", "o", "d", "y", " ", "t", "e", "x", "t", ",", " ",
                   "c", "o", "n", "t", "i", "n", "u", "e", "d">>,
                 12, "Helvetica", FALSE)

\* The blocks a page can hold.
Blocks == {Block(<<TitleSpan>>), Block(<<ChapterSpan>>), Block(<<SectionSpan>>),
           Block(<<ParagraphSpan>>), Block(<<CaptionSpan>>), Block(<<UpperCaptionSpan>>),
           Block(<<PageNumberSpan>>)}

\* The blocks of a page of headings and body lines.
BodyBlocks == {Block(<<ChapterSpan>>), Block(<<BodySpan>>), Block(<<AboutSpan>>)}

\* The file names a document can come with.
DocNames == {<<>>, <<".", "p", "d", "f">>,
             <<"r", "e", "p", "o", "r", "t", ".", "p", "d", "f">>}

\* Availability of the optional libraries (SPACY_AVAILABLE, NLTK_AVAILABLE).
NlpModes == {"none", "nltk", "spacy"}

SpacyAvailable(mode) == mode = "spacy"
NltkAvailable(mode) == mode = "nltk"

\* The number of NOUN/PROPN tokens spaCy may find in a title candidate.
NounCounts == {0, 1, 2}

RECURSIVE Flatten(_)
Flatten(seqs) == IF seqs = <<>> THEN <<>> ELSE seqs[1] \o Flatten(Tail(seqs))

\* The spans of a list of blocks, in order.
SpansOf(blocks) == Flatten([i \in 1..Len(blocks) |-> blocks[i].spans])

\* The blocks of a list of pages, in order.
BlocksOf(pages) == Flatten([i \in 1..Len(pages) |-> pages[i].blocks])

TotalBlocks(pages) == Len(BlocksOf(pages))

\* No document has been extracted or processed.
IdleDoc ==
    /\ pages_data = <<>>
    /\ called = "none"
    /\ nlp = "none"
    /\ result_title = <<>>
    /\ result_outline = <<>>

\* Font metrics as accumulated by the extractor: font -> sizes in document order.
FontMetricsOf(pages) ==
    LET spans == SpansOf(BlocksOf(pages))
        fonts == {spans[i].font : i \in 1..Len(spans)}
        Sizes(f) == LET idx == {i \in 1..Len(spans) : spans[i].font = f}
                        RECURSIVE Pick(_)
                        Pick(i) == IF i > Len(spans) THEN <<>>
                                   ELSE (IF i \in idx THEN <<spans[i].size>> ELSE <<>>)
                                        \o Pick(i + 1)
                    IN  Pick(1)
    IN  [f \in fonts |-> Sizes(f)]

-----------------------------------------------------------------------------
(* Title selection: HeadingClassifier.extract_title and                        *)
(* PDFProcessor._extract_title_fast                                            *)

MinTitleLen == 5
MaxTitleLen == 100
FastTitleBlocks == 5

FooterWords == {<<"p", "a", "g", "e">>,
                <<"c", "o", "p", "y", "r", "i", "g", "h", "t">>,
                <<"c", "o", "n", "f", "i", "d", "e", "n", "t", "i", "a", "l">>,
                <<"d", "r", "a", "f", "t">>,
                <<"p", "r", "o", "p", "r", "i", "e", "t", "a", "r", "y">>,
                <<CopyrightSign>>}

AllDigits(t) == t # <<>> /\ \A i \in 1..Len(t) : t[i] \in Digit

\* re.match(r'^\s*\d+\s*$', text)
_is_page_number(text) == AllDigits(strip(text))

\* _is_likely_header_footer without the footer words.
_is_likely_header_footer_DigitsOnly(text) == AllDigits(strip(text))

_is_likely_header_footer(text) ==
    LET lowered == lower(text)
    IN  \/ AllDigits(strip(text))
        \/ \E w \in FooterWords : Contains(lowered, w)

PunctCount(c) == Cardinality({i \in 1..Len(c) : ~isalnum(c[i]) /\ c[i] # " "})

\* The score _select_best_title gives a candidate; nouns = len(nouns) from spaCy.
TitleScore(c, nouns) ==
      (IF Len(split(c)) >= 2 THEN 2 ELSE 0)
    + (IF 10 * PunctCount(c) < Len(c) THEN 1 ELSE 0)
    + (IF ~isupper(c) \/ Len(c) <= 10 THEN 1 ELSE 0)
    + nouns

\* (score, candidate) tuples compare by score, then by the candidate strings.
ScoredLess(s1, c1, s2, c2) == s1 < s2 \/ (s1 = s2 /\ StrLess(c1, c2))

\* The greatest (score, candidate) tuple among those from position i on and best.
RECURSIVE GreatestScored(_, _, _, _)
GreatestScored(cands, nouns, i, best) ==
    IF i > Len(cands) THEN best
    ELSE LET scored == [score |-> TitleScore(cands[i], nouns[i]), candidate |-> cands[i]]
         IN  GreatestScored(cands, nouns, i + 1,
                            IF ScoredLess(best.score, best.candidate,
                                          scored.score, scored.candidate)
                            THEN scored ELSE best)

\* scored_candidates.sort(reverse=True); scored_candidates[0][1]
_select_best_title(cands, nouns) ==
    IF Len(cands) = 1 THEN cands[1]
    ELSE GreatestScored(cands, nouns, 2,
                        [score |-> TitleScore(cands[1], nouns[1]),
                         candidate |-> cands[1]]).candidate

\* The loop of extract_title over the spans of the first page:
\* st = [largest_size, title_candidates].
TitleStep(st, span) ==
    LET text == strip(span.text)
        size == span.size
    IN  IF /\ Len(text) >= MinTitleLen /\ Len(text) <= MaxTitleLen
           /\ size >= st.largest_size
           /\ ~_is_likely_header_footer(text)
           /\ ~_is_page_number(text)
        THEN IF size > st.largest_size
             THEN [largest_size |-> size, title_candidates |-> <<text>>]
             ELSE [st EXCEPT !.title_candidates = Append(@, text)]
        ELSE st

RECURSIVE TitleLoop(_, _, _)
TitleLoop(spans, i, st) ==
    IF i > Len(spans) THEN st ELSE TitleLoop(spans, i + 1, TitleStep(st, spans[i]))

TitleCandidates(pages) ==
    TitleLoop(SpansOf(pages[1].blocks), 1,
              [largest_size |-> 0, title_candidates |-> <<>>]).title_candidates

\* The noun counts spaCy can report for n title candidates (all 0 without spaCy).
NounChoices(n, mode) ==
    IF SpacyAvailable(mode) THEN [1..n -> NounCounts] ELSE {[i \in 1..n |-> 0]}

\* HeadingClassifier.extract_title: the titles the call can return, over what spaCy
\* may say about the candidates (one title when spaCy is not available).
extract_title(pages, name, mode) ==
    IF pages = <<>> THEN {_clean_filename(name)}
    ELSE LET title_candidates == TitleCandidates(pages)
         IN  IF title_candidates # <<>>
             THEN {_select_best_title(title_candidates, nouns) :
                      nouns \in NounChoices(Len(title_candidates), mode)}
             ELSE {_clean_filename(name)}

\* The loop of _extract_title_fast: st = [largest_size, title_candidate].
TitleStepFast(st, span) ==
    LET text == strip(span.text)
        size == span.size
    IN  IF /\ Len(text) >= MinTitleLen /\ Len(text) <= MaxTitleLen
           /\ size > st.largest_size
           /\ ~_is_page_number(text)
        THEN [largest_size |-> size, title_candidate |-> text]
        ELSE st

RECURSIVE TitleLoopFast(_, _, _)
TitleLoopFast(spans, i, st) ==
    IF i > Len(spans) THEN st
    ELSE TitleLoopFast(spans, i + 1, TitleStepFast(st, spans[i]))

FirstBlocks(blocks, n) == SubSeq(blocks, 1, IF Len(blocks) < n THEN Len(blocks) ELSE n)

\* PDFProcessor._extract_title_fast
_extract_title_fast(pages, name) ==
    IF pages = <<>> THEN _clean_filename_fast(name)
    ELSE LET found == TitleLoopFast(SpansOf(FirstBlocks(pages[1].blocks, FastTitleBlocks)), 1,
                                    [largest_size |-> 0, title_candidate |-> <<>>])
         IN  IF found.title_candidate # <<>> THEN found.title_candidate
             ELSE _clean_filename_fast(name)

-----------------------------------------------------------------------------
(* Font-size thresholds: HeadingClassifier._calculate_font_thresholds and      *)
(* PDFProcessor._calculate_thresholds_fast                                     *)

Fonts == {"Helvetica", "Helvetica-Bold"}

\* The size lists one page contributes to one font (pdf_parser.py line 58 extends
\* the font's list by the page's list; pdf_processor.py line 112 appends span by span).
BodyRun == [i \in 1..12 |-> 12]
PageSizeLists == {<<>>, <<12>>, <<24, 12>>, <<11, 14, 18>>, <<10, 10, 10>>, BodyRun}

DefaultThresholds == [h1 |-> 16, h2 |-> 14, h3 |-> 12, body |-> 10]
NoThresholds == [h1 |-> 0, h2 |-> 0, h3 |-> 0, body |-> 0]

Max(a, b) == IF a >= b THEN a ELSE b

\* all_sizes.extend(...) over the values of the dict.  The list is sorted before
\* any element is read, so the order in which the fonts are visited does not matter.
RECURSIVE ExtendAll(_, _)
ExtendAll(fm, fonts) ==
    IF fonts = {} THEN <<>>
    ELSE LET f == CHOOSE x \in fonts : TRUE
         IN  fm[f] \o ExtendAll(fm, fonts \ {f})

AllSizes(fm) == ExtendAll(fm, DOMAIN fm)

RECURSIVE InsertAsc(_, _)
InsertAsc(x, s) ==
    IF s = <<>> THEN <<x>>
    ELSE IF x <= Head(s) THEN <<x>> \o s
    ELSE <<Head(s)>> \o InsertAsc(x, Tail(s))

RECURSIVE SortAsc(_)
SortAsc(s) == IF s = <<>> THEN <<>> ELSE InsertAsc(Head(s), SortAsc(Tail(s)))

RECURSIVE InsertDesc(_, _)
InsertDesc(x, s) ==
    IF s = <<>> THEN <<x>>
    ELSE IF x >= Head(s) THEN <<x>> \o s
    ELSE <<Head(s)>> \o InsertDesc(x, Tail(s))

\* list.sort(reverse=True)
RECURSIVE SortDesc(_)
SortDesc(s) == IF s = <<>> THEN <<>> ELSE InsertDesc(Head(s), SortDesc(Tail(s)))

\* max(0, int(n * p)) for p = pct / 100.  int(n * p) in floating point equals
\* (n * pct) \div 100 for every n below 90 and every percentage used here.
PctIndex(n, pct) == Max(0, (n * pct) \div 100)

\* Element at a 0-based index of a Python list.
At(s, i) == s[i + 1]

\* The classifier calculator returning the h3 default for body when there are no sizes.
_calculate_font_thresholds_WrongDefault(fm) ==
    LET all_sizes == SortDesc(AllSizes(fm))
        n == Len(all_sizes)
        body_threshold == At(all_sizes, PctIndex(n, 70))
    IN  IF AllSizes(fm) = <<>> THEN [h1 |-> 16, h2 |-> 14, h3 |-> 12, body |-> 12]
        ELSE [h1 |-> Max(At(all_sizes, PctIndex(n, 3)), body_threshold + 4),
              h2 |-> Max(At(all_sizes, PctIndex(n, 10)), body_threshold + 2),
              h3 |-> Max(At(all_sizes, PctIndex(n, 25)), body_threshold + 1),
              body |-> body_threshold]

_calculate_font_thresholds(fm) ==
    LET all_sizes == SortDesc(AllSizes(fm))
        n == Len(all_sizes)
        h1_threshold == At(all_sizes, PctIndex(n, 3))
        h2_threshold == At(all_sizes, PctIndex(n, 10))
        h3_threshold == At(all_sizes, PctIndex(n, 25))
        body_threshold == At(all_sizes, PctIndex(n, 70))
    IN  IF AllSizes(fm) = <<>> THEN DefaultThresholds
        ELSE [h1 |-> Max(h1_threshold, body_threshold + 4),
              h2 |-> Max(h2_threshold, body_threshold + 2),
              h3 |-> Max(h3_threshold, body_threshold + 1),
              body |-> body_threshold]

_calculate_thresholds_fast(fm) ==
    LET all_sizes == SortDesc(AllSizes(fm))
        n == Len(all_sizes)
        h1_idx == PctIndex(n, 5)
        h2_idx == PctIndex(n, 15)
        h3_idx == PctIndex(n, 30)
        body_idx == n \div 2
    IN  IF AllSizes(fm) = <<>> THEN DefaultThresholds
        ELSE [h1 |-> At(all_sizes, h1_idx),
              h2 |-> At(all_sizes, h2_idx),
              h3 |-> At(all_sizes, h3_idx),
              body |-> At(all_sizes, body_idx)]

\* A page's sizes for one font join the font metrics.
ExtendSizes(f, sizes) ==
    /\ calculated = {}
    /\ font_pages < MaxFontPages
    /\ font_metrics' =
          IF f \in DOMAIN font_metrics
          THEN [font_metrics EXCEPT ![f] = @ \o sizes]
          ELSE [g \in DOMAIN font_metrics \cup {f} |->
                   IF g = f THEN sizes ELSE font_metrics[g]]
    /\ font_pages' = font_pages + 1
    /\ UNCHANGED <<thresholds, thresholds_fast, calculated>>
    /\ UNCHANGED <<varsRefine, varsFilename, varsDoc>>
    /\ UNCHANGED varsOther

\* classify_headings, line 105.
CalculateThresholds ==
    /\ "classifier" \notin calculated
    /\ thresholds' = _calculate_font_thresholds(font_metrics)
    /\ calculated' = calculated \cup {"classifier"}
    /\ UNCHANGED <<font_metrics, font_pages, thresholds_fast>>
    /\ UNCHANGED <<varsRefine, varsFilename, varsDoc>>
    /\ UNCHANGED varsOther

\* process_pdf, line 117.
CalculateThresholdsFast ==
    /\ "fast" \notin calculated
    /\ thresholds_fast' = _calculate_thresholds_fast(font_metrics)
    /\ calculated' = calculated \cup {"fast"}
    /\ UNCHANGED <<font_metrics, font_pages, thresholds>>
    /\ UNCHANGED <<varsRefine, varsFilename, varsDoc>>
    /\ UNCHANGED varsOther

IdleThresholds ==
    /\ font_metrics = [f \in {} |-> <<>>]
    /\ font_pages = 0
    /\ thresholds = NoThresholds
    /\ thresholds_fast = NoThresholds
    /\ calculated = {}

-----------------------------------------------------------------------------
(* Hierarchy refinement: HeadingClassifier._refine_heading_hierarchy *)

H1Cap == 10
ShortTextLen == 30

Levels == {"H1", "H2", "H3"}

ShortText == <<"I", "n", "t", "r", "o">>
LongText == <<"A", "n", " ", "O", "v", "e", "r", "v", "i", "e", "w", " ", "o", "f",
              " ", "t", "h", "e", " ", "W", "h", "o", "l", "e", " ", "S", "y", "s",
              "t", "e", "m">>
HeadingTexts == {ShortText, LongText}
HeadingPages == {1, 2}
PageBreaks == {1, 4}   \* a second page starts after this many headings, if at all

\* RefineStep with the short-text test of the H1 cap left out.
RefineStep_CapAnyLength(st, heading) ==
    LET t == heading.type
    IN  IF t = "H1"
        THEN IF st.h1 + 1 > H1Cap
             THEN [h1 |-> st.h1 + 1, h2 |-> st.h2,
                   out |-> Append(st.out, [heading EXCEPT !.type = "H2"])]
             ELSE [h1 |-> st.h1 + 1, h2 |-> st.h2, out |-> Append(st.out, heading)]
        ELSE IF t = "H2"
        THEN IF st.h1 = 0 /\ st.h2 + 1 = 1
             THEN [h1 |-> st.h1 + 1, h2 |-> st.h2 + 1,
                   out |-> Append(st.out, [heading EXCEPT !.type = "H1"])]
             ELSE [h1 |-> st.h1, h2 |-> st.h2 + 1, out |-> Append(st.out, heading)]
        ELSE IF st.h1 = 0 /\ st.h2 = 0
        THEN [h1 |-> st.h1, h2 |-> st.h2 + 1,
              out |-> Append(st.out, [heading EXCEPT !.type = "H2"])]
        ELSE [h1 |-> st.h1, h2 |-> st.h2, out |-> Append(st.out, heading)]

\* RefineStep with a promoted H2 left out of the H1 count.
RefineStep_PromotedNotCounted(st, heading) ==
    LET t == heading.type
    IN  IF t = "H1"
        THEN IF st.h1 + 1 > H1Cap /\ Len(heading.text) < ShortTextLen
             THEN [h1 |-> st.h1 + 1, h2 |-> st.h2,
                   out |-> Append(st.out, [heading EXCEPT !.type = "H2"])]
             ELSE [h1 |-> st.h1 + 1, h2 |-> st.h2, out |-> Append(st.out, heading)]
        ELSE IF t = "H2"
        THEN IF st.h1 = 0 /\ st.h2 + 1 = 1
             THEN [h1 |-> st.h1, h2 |-> st.h2 + 1,
                   out |-> Append(st.out, [heading EXCEPT !.type = "H1"])]
             ELSE [h1 |-> st.h1, h2 |-> st.h2 + 1, out |-> Append(st.out, heading)]
        ELSE IF st.h1 = 0 /\ st.h2 = 0
        THEN [h1 |-> st.h1, h2 |-> st.h2 + 1,
              out |-> Append(st.out, [heading EXCEPT !.type = "H2"])]
        ELSE [h1 |-> st.h1, h2 |-> st.h2, out |-> Append(st.out, heading)]

\* RefineStep with a leading H3 raised to H1 at once.
RefineStep_H3ToH1(st, heading) ==
    LET t == heading.type
    IN  IF t = "H1"
        THEN IF st.h1 + 1 > H1Cap /\ Len(heading.text) < ShortTextLen
             THEN [h1 |-> st.h1 + 1, h2 |-> st.h2,
                   out |-> Append(st.out, [heading EXCEPT !.type = "H2"])]
             ELSE [h1 |-> st.h1 + 1, h2 |-> st.h2, out |-> Append(st.out, heading)]
        ELSE IF t = "H2"
        THEN IF st.h1 = 0 /\ st.h2 + 1 = 1
             THEN [h1 |-> st.h1 + 1, h2 |-> st.h2 + 1,
                   out |-> Append(st.out, [heading EXCEPT !.type = "H1"])]
             ELSE [h1 |-> st.h1, h2 |-> st.h2 + 1, out |-> Append(st.out, heading)]
        ELSE IF st.h1 = 0 /\ st.h2 = 0
        THEN [h1 |-> st.h1 + 1, h2 |-> st.h2,
              out |-> Append(st.out, [heading EXCEPT !.type = "H1"])]
        ELSE [h1 |-> st.h1, h2 |-> st.h2, out |-> Append(st.out, heading)]

\* One iteration of the loop over headings: st = [h1, h2, out].
RefineStep(st, heading) ==
    LET t == heading.type
        n == Len(heading.text)
    IN  IF t = "H1"
        THEN LET c == st.h1 + 1
             IN  IF c > H1Cap /\ n < ShortTextLen
                 THEN [h1 |-> c, h2 |-> st.h2,
                       out |-> Append(st.out, [heading EXCEPT !.type = "H2"])]
                 ELSE [h1 |-> c, h2 |-> st.h2, out |-> Append(st.out, heading)]
        ELSE IF t = "H2"
        THEN LET c == st.h2 + 1
             IN  IF st.h1 = 0 /\ c = 1
                 THEN [h1 |-> st.h1 + 1, h2 |-> c,
                       out |-> Append(st.out, [heading EXCEPT !.type = "H1"])]
                 ELSE [h1 |-> st.h1, h2 |-> c, out |-> Append(st.out, heading)]
        ELSE IF t = "H3"
        THEN IF st.h1 = 0 /\ st.h2 = 0
             THEN [h1 |-> st.h1, h2 |-> st.h2 + 1,
                   out |-> Append(st.out, [heading EXCEPT !.type = "H2"])]
             ELSE [h1 |-> st.h1, h2 |-> st.h2, out |-> Append(st.out, heading)]
        ELSE [h1 |-> st.h1, h2 |-> st.h2, out |-> Append(st.out, heading)]

RECURSIVE RefineLoop(_, _, _)
RefineLoop(hs, i, st) ==
    IF i > Len(hs) THEN st ELSE RefineLoop(hs, i + 1, RefineStep(st, hs[i]))

_refine_heading_hierarchy(hs) ==
    IF hs = <<>> THEN hs
    ELSE RefineLoop(hs, 1, [h1 |-> 0, h2 |-> 0, out |-> <<>>]).out

CountWhere(hs, P(_)) == Cardinality({i \in 1..Len(hs) : P(hs[i])})
IsLower(h) == h.type # "H1"
IsLong(h) == Len(h.text) >= ShortTextLen
LastPage(hs) == IF hs = <<>> THEN 1 ELSE hs[Len(hs)].page

\* classify_headings, lines 111-118: the next classified heading joins the list.
Feed(h) ==
    /\ passes = 0
    /\ Len(candidates) < MaxHeadings
    /\ IsLower(h) => CountWhere(candidates, IsLower) < MaxLower
    /\ IsLong(h) => CountWhere(candidates, IsLong) < MaxLong
    /\ \/ h.page = LastPage(candidates)
       \/ h.page = LastPage(candidates) + 1 /\ Len(candidates) \in PageBreaks
    /\ candidates' = Append(candidates, h)
    /\ headings' = Append(headings, h)
    /\ UNCHANGED <<prev, passes>>
    /\ UNCHANGED <<varsThresholds, varsFilename, varsDoc>>
    /\ UNCHANGED varsOther

\* classify_headings, line 121 (and a second application to the result).
Refine ==
    /\ passes < 2
    /\ prev' = headings
    /\ headings' = _refine_heading_hierarchy(headings)
    /\ passes' = passes + 1
    /\ UNCHANGED candidates
    /\ UNCHANGED <<varsThresholds, varsFilename, varsDoc>>
    /\ UNCHANGED varsOther

IdleRefine ==
    /\ candidates = <<>>
    /\ headings = <<>>
    /\ prev = <<>>
    /\ passes = 0

InitRefine ==
    /\ IdleRefine
    /\ IdleOther
    /\ IdleThresholds
    /\ IdleFilename
    /\ IdleDoc

NextRefine ==
    \/ \E t \in Levels, x \in HeadingTexts, p \in HeadingPages :
           Feed([type |-> t, text |-> x, page |-> p])
    \/ Refine

SpecRefine == InitRefine /\ [][NextRefine]_vars

-----------------------------------------------------------------------------
(* Claims about hierarchy refinement, checked under SpecRefine *)

TypeAt(hs, i) == hs[i].type
H1Before(hs, i) == \E j \in 1..(i - 1) : TypeAt(hs, j) = "H1"
H2Before(hs, i) == \E j \in 1..(i - 1) : TypeAt(hs, j) = "H2"

\* Hierarchy validity: no H2 before the first H1, no H3 before an H1 and an H2.
HierarchyValid(hs) ==
    \A i \in 1..Len(hs) :
        /\ TypeAt(hs, i) = "H2" => H1Before(hs, i)
        /\ TypeAt(hs, i) = "H3" => H1Before(hs, i) /\ H2Before(hs, i)

\* C1: the list returned by _refine_heading_hierarchy has no H2 entry without an
\* H1 entry earlier in the list.
C1_NoH2WithoutH1 ==
    passes = 1 =>
        \A i \in 1..Len(headings) : TypeAt(headings, i) = "H2" => H1Before(headings, i)

\* C2: the list returned by _refine_heading_hierarchy has no H3 entry unless an
\* H1 entry and an H2 entry both appear earlier in the list.
C2_NoH3WithoutH1H2 ==
    passes = 1 =>
        \A i \in 1..Len(headings) :
            TypeAt(headings, i) = "H3" => H1Before(headings, i) /\ H2Before(headings, i)

\* C3: refinement is idempotent: a second application to the result of the first
\* returns the same levels, texts and pages.
C3_Idempotent == passes = 2 => headings = prev

\* C4 as claimed: on a list that already satisfies hierarchy validity, refinement
\* leaves every level unchanged, whatever the number of entries and text lengths.
C4_NoOpOnValid ==
    passes = 1 /\ HierarchyValid(candidates) =>
        \A i \in 1..Len(candidates) : TypeAt(headings, i) = TypeAt(candidates, i)

\* The i-th entry is an H1 that comes after H1Cap earlier H1 entries and has a
\* text shorter than ShortTextLen characters.
ShortH1BeyondCap(hs, i) ==
    /\ TypeAt(hs, i) = "H1"
    /\ Cardinality({j \in 1..i : TypeAt(hs, j) = "H1"}) > H1Cap
    /\ Len(hs[i].text) < ShortTextLen

\* C4 as amended: on a list that satisfies hierarchy validity and in which every
\* H1 after the tenth H1 has a text of 30 characters or more, refinement leaves
\* every level, text and page unchanged.
C4_NoOpOnValidWithinCap ==
    /\ passes = 1
    /\ HierarchyValid(candidates)
    /\ \A i \in 1..Len(candidates) : ~ShortH1BeyondCap(candidates, i)
    => headings = candidates

\* A valid list of eleven H1 entries (the eleventh long) and an H2 has been refined.
C4_Witness ==
    /\ passes = 1
    /\ HierarchyValid(candidates)
    /\ \A i \in 1..Len(candidates) : ~ShortH1BeyondCap(candidates, i)
    /\ Cardinality({j \in 1..Len(candidates) : TypeAt(candidates, j) = "H1"}) > H1Cap
    /\ \E j \in 1..Len(candidates) : TypeAt(candidates, j) = "H2"

\* The H1 count when the loop has handled the i-th heading: the input H1
\* entries up to it and the H2 entries before it that were promoted to H1.
RunningH1(in, out, i) ==
    Cardinality({j \in 1..i : TypeAt(in, j) = "H1"})
    + Cardinality({j \in 1..(i - 1) : TypeAt(in, j) = "H2" /\ TypeAt(out, j) = "H1"})

\* C26: an input H1 comes out as H2 exactly when the running H1 count including
\* it exceeds 10 and its text is shorter than 30 characters; every other input
\* H1 comes out as H1.
C26_H1Cap ==
    passes = 1 =>
        \A i \in 1..Len(candidates) :
            TypeAt(candidates, i) = "H1" =>
                TypeAt(headings, i) =
                    IF /\ RunningH1(candidates, headings, i) > H1Cap
                       /\ Len(candidates[i].text) < ShortTextLen
                    THEN "H2" ELSE "H1"

\* A short H1 has been demoted although it is only the tenth H1 of the input:
\* the count had been raised by a promoted H2.
C26_Witness ==
    /\ passes = 1
    /\ \E i \in 1..Len(candidates) :
           /\ TypeAt(candidates, i) = "H1"
           /\ TypeAt(headings, i) = "H2"
           /\ Cardinality({j \in 1..i : TypeAt(candidates, j) = "H1"}) = H1Cap

\* A long H1 beyond the cap has been kept as H1.
C26_WitnessLong ==
    /\ passes = 1
    /\ \E i \in 1..Len(candidates) :
           /\ TypeAt(candidates, i) = "H1"
           /\ TypeAt(headings, i) = "H1"
           /\ RunningH1(candidates, headings, i) > H1Cap

OneStep(from, to) ==
    \/ from = to
    \/ from = "H2" /\ to = "H1"
    \/ from = "H3" /\ to = "H2"
    \/ from = "H1" /\ to = "H2"

\* C28: the refined list has the length of its input and the same text and page
\* at every position; only levels change, and by one step at most (H2 to H1,
\* H3 to H2 or H1 to H2).
C28_RefinerFrame ==
    passes = 1 =>
        /\ Len(headings) = Len(candidates)
        /\ \A i \in 1..Len(candidates) :
               /\ headings[i].text = candidates[i].text
               /\ headings[i].page = candidates[i].page
               /\ OneStep(TypeAt(candidates, i), TypeAt(headings, i))

\* A list on two pages with both texts has been refined: its leading H3 was
\* raised and a short H1 beyond the cap was demoted.
C28_Witness ==
    /\ passes = 1
    /\ candidates # <<>>
    /\ TypeAt(candidates, 1) = "H3" /\ TypeAt(headings, 1) = "H2"
    /\ \E i \in 1..Len(candidates) :
           TypeAt(candidates, i) = "H1" /\ TypeAt(headings, i) = "H2"
    /\ \E i, j \in 1..Len(candidates) :
           candidates[i].page # candidates[j].page /\ candidates[i].text # candidates[j].text

-----------------------------------------------------------------------------
(* Regular expressions, matched from the start of the text as re.match does.  *)
(* A position is the index of the next character to read; 0 means no match.   *)
(* Every pattern below is a chain of character classes that exclude the       *)
(* character following them, so the greedy run is the only way to match.      *)

\* class+ at position i
Run1(t, i, class) ==
    IF i = 0 THEN 0
    ELSE IF SkipWhile(t, i, class) > i THEN SkipWhile(t, i, class) ELSE 0

\* class* at position i
Run0(t, i, class) == IF i = 0 THEN 0 ELSE SkipWhile(t, i, class)

\* c? at position i
Opt(t, i, c) == IF i = 0 THEN 0 ELSE IF i <= Len(t) /\ t[i] = c THEN i + 1 ELSE i

\* the character c at position i
Chr(t, i, c) == IF i # 0 /\ i <= Len(t) /\ t[i] = c THEN i + 1 ELSE 0

\* one character of the class at position i
HasAt(t, i, class) == i # 0 /\ i <= Len(t) /\ t[i] \in class

\* the literal w at position i, letters compared as written (no re.IGNORECASE)
LitExact(t, i, w) ==
    IF i # 0 /\ i + Len(w) - 1 <= Len(t) /\ SubSeq(t, i, i + Len(w) - 1) = w
    THEN i + Len(w) ELSE 0

\* the literal w (in lower case) at position i under re.IGNORECASE
Lit(t, i, w) ==
    IF /\ i # 0 /\ i + Len(w) - 1 <= Len(t)
       /\ \A k \in 1..Len(w) : lower_char(t[i + k - 1]) = w[k]
    THEN i + Len(w) ELSE 0

CaptionWords == {<<"f", "i", "g", "u", "r", "e">>,
                <<"t", "a", "b", "l", "e">>,
                <<"c", "h", "a", "r", "t">>,
                <<"g", "r", "a", "p", "h">>}

\* The caption pattern compiled without re.IGNORECASE.
MatchCaption_CaseSensitive(t) ==
    \E w \in CaptionWords :
        HasAt(t, Run1(t, LitExact(t, Run0(t, 1, Whitespace), w), Whitespace), Digit)

\* re.match(r'^\s*(figure|table|chart|graph)\s+\d+', text, re.IGNORECASE)
MatchCaption(t) ==
    \E w \in CaptionWords :
        HasAt(t, Run1(t, Lit(t, Run0(t, 1, Whitespace), w), Whitespace), Digit)

\* ^(chapter|section|part)\s+\d+
MatchChapter(t) ==
    \E w \in {<<"c", "h", "a", "p", "t", "e", "r">>,
            <<"s", "e", "c", "t", "i", "o", "n">>,
            <<"p", "a", "r", "t">>} :
        HasAt(t, Run1(t, Lit(t, 1, w), Whitespace), Digit)

\* ^\d+\.?\s+[A-Z]
MatchNumbered(t) ==
    HasAt(t, Run1(t, Opt(t, Run1(t, 1, Digit), "."), Whitespace), Letter)

\* ^\d+\.\d+\.?\s+[A-Z]
MatchNumbered2(t) ==
    HasAt(t, Run1(t, Opt(t, Run1(t, Chr(t, Run1(t, 1, Digit), "."), Digit), "."),
                  Whitespace), Letter)

\* ^\d+\.\d+\.\d+\.?\s+[A-Z]
MatchNumbered3(t) ==
    HasAt(t, Run1(t, Opt(t, Run1(t, Chr(t, Run1(t, Chr(t, Run1(t, 1, Digit), "."),
                                                 Digit), "."), Digit), "."),
                  Whitespace), Letter)

RomanLetters == {"I", "V", "X", "i", "v", "x"}

\* ^[IVX]+\.?\s+[A-Z]
MatchRoman(t) ==
    HasAt(t, Run1(t, Opt(t, Run1(t, 1, RomanLetters), "."), Whitespace), Letter)

\* ^[A-Z]\.?\s+[A-Z]
MatchLetterEnum(t) ==
    /\ HasAt(t, 1, Letter)
    /\ HasAt(t, Run1(t, Opt(t, 2, "."), Whitespace), Letter)

HeadingWords1 == {<<"i", "n", "t", "r", "o", "d", "u", "c", "t", "i", "o", "n">>,
                 <<"c", "o", "n", "c", "l", "u", "s", "i", "o", "n">>,
                 <<"s", "u", "m", "m", "a", "r", "y">>,
                 <<"o", "v", "e", "r", "v", "i", "e", "w">>,
                 <<"b", "a", "c", "k", "g", "r", "o", "u", "n", "d">>,
                 <<"m", "e", "t", "h", "o", "d", "o", "l", "o", "g", "y">>,
                 <<"r", "e", "s", "u", "l", "t", "s">>,
                 <<"d", "i", "s", "c", "u", "s", "s", "i", "o", "n">>,
                 <<"r", "e", "f", "e", "r", "e", "n", "c", "e", "s">>}
HeadingWords2 == {<<"a", "b", "s", "t", "r", "a", "c", "t">>,
                 <<"a", "c", "k", "n", "o", "w", "l", "e", "d", "g", "m", "e", "n", "t">>,
                 <<"a", "p", "p", "e", "n", "d", "i", "x">>,
                 <<"b", "i", "b", "l", "i", "o", "g", "r", "a", "p", "h", "y">>,
                 <<"g", "l", "o", "s", "s", "a", "r", "y">>}

\* ^(introduction|conclusion|...|references) and ^(abstract|acknowledgments?|...)
MatchHeadingWord(t) == \E w \in HeadingWords1 \cup HeadingWords2 : Lit(t, 1, w) # 0

\* ^(table\s+of\s+contents?|contents?)
MatchContents(t) ==
    \/ Lit(t, Run1(t, Lit(t, Run1(t, Lit(t, 1, <<"t", "a", "b", "l", "e">>), Whitespace),
                          <<"o", "f">>), Whitespace),
           <<"c", "o", "n", "t", "e", "n", "t">>) # 0
    \/ Lit(t, 1, <<"c", "o", "n", "t", "e", "n", "t">>) # 0

\* ^(executive\s+summary|literature\s+review|case\s+study)
MatchPhrase(t) ==
    \E ph \in {<<<<"e", "x", "e", "c", "u", "t", "i", "v", "e">>, <<"s", "u", "m", "m", "a", "r", "y">>>>,
               <<<<"l", "i", "t", "e", "r", "a", "t", "u", "r", "e">>, <<"r", "e", "v", "i", "e", "w">>>>,
               <<<<"c", "a", "s", "e">>, <<"s", "t", "u", "d", "y">>>>} :
        Lit(t, Run1(t, Lit(t, 1, ph[1]), Whitespace), ph[2]) # 0

MinCapsLen == 4
MaxCapsLen == 50

\* ^[A-Z\s\-]{4,50}$  (compiled, like all of them, with re.IGNORECASE)
MatchAllCaps(t) ==
    /\ Len(t) >= MinCapsLen /\ Len(t) <= MaxCapsLen
    /\ \A i \in 1..Len(t) : t[i] \in Letter \cup Whitespace \cup {"-"}

\* any(pattern.match(text) for pattern in self.compiled_patterns)
MatchesHeadingPattern(t) ==
    \/ MatchChapter(t) \/ MatchNumbered(t) \/ MatchNumbered2(t) \/ MatchNumbered3(t)
    \/ MatchRoman(t) \/ MatchLetterEnum(t)
    \/ MatchHeadingWord(t) \/ MatchContents(t) \/ MatchPhrase(t)
    \/ MatchAllCaps(t)

\* re.match(r'^\d+\.?\s+\w+', text)
MatchWeakNumbered(t) ==
    HasAt(t, Run1(t, Opt(t, Run1(t, 1, Digit), "."), Whitespace), WordChar)

\* re.match(r'^\d+\.\d+\.?\s+\w+', text)
MatchWeakNumbered2(t) ==
    HasAt(t, Run1(t, Opt(t, Run1(t, Chr(t, Run1(t, 1, Digit), "."), Digit), "."),
                  Whitespace), WordChar)

\* re.match(r'^\d+\.?\d*\.?\s+\w+', text)
MatchNumberedSection(t) ==
    HasAt(t, Run1(t, Opt(t, Run0(t, Opt(t, Run1(t, 1, Digit), "."), Digit), "."),
                  Whitespace), WordChar)

-----------------------------------------------------------------------------
(* The classifier path: HeadingClassifier.classify_headings *)

min_heading_length == 3
max_heading_length == 200
MaxSentenceWords == 15

HeadingKeywords == {<<"i", "n", "t", "r", "o", "d", "u", "c", "t", "i", "o", "n">>,
                   <<"c", "o", "n", "c", "l", "u", "s", "i", "o", "n">>,
                   <<"s", "u", "m", "m", "a", "r", "y">>,
                   <<"o", "v", "e", "r", "v", "i", "e", "w">>,
                   <<"b", "a", "c", "k", "g", "r", "o", "u", "n", "d">>,
                   <<"m", "e", "t", "h", "o", "d", "o", "l", "o", "g", "y">>,
                   <<"m", "e", "t", "h", "o", "d", "s">>,
                   <<"r", "e", "s", "u", "l", "t", "s">>,
                   <<"d", "i", "s", "c", "u", "s", "s", "i", "o", "n">>,
                   <<"a", "n", "a", "l", "y", "s", "i", "s">>,
                   <<"a", "b", "s", "t", "r", "a", "c", "t">>,
                   <<"a", "c", "k", "n", "o", "w", "l", "e", "d", "g", "m", "e", "n", "t", "s">>,
                   <<"a", "p", "p", "e", "n", "d", "i", "x">>,
                   <<"b", "i", "b", "l", "i", "o", "g", "r", "a", "p", "h", "y">>,
                   <<"g", "l", "o", "s", "s", "a", "r", "y">>,
                   <<"c", "o", "n", "t", "e", "n", "t", "s">>,
                   <<"p", "r", "e", "f", "a", "c", "e">>,
                   <<"f", "o", "r", "e", "w", "o", "r", "d">>,
                   <<"e", "x", "e", "c", "u", "t", "i", "v", "e">>,
                   <<"l", "i", "t", "e", "r", "a", "t", "u", "r", "e">>,
                   <<"r", "e", "v", "i", "e", "w">>,
                   <<"s", "t", "u", "d", "y">>,
                   <<"r", "e", "s", "e", "a", "r", "c", "h">>,
                   <<"f", "i", "n", "d", "i", "n", "g", "s">>,
                   <<"r", "e", "c", "o", "m", "m", "e", "n", "d", "a", "t", "i", "o", "n", "s">>,
                   <<"i", "m", "p", "l", "e", "m", "e", "n", "t", "a", "t", "i", "o", "n">>,
                   <<"e", "v", "a", "l", "u", "a", "t", "i", "o", "n">>,
                   <<"a", "s", "s", "e", "s", "s", "m", "e", "n", "t">>,
                   <<"f", "r", "a", "m", "e", "w", "o", "r", "k">>,
                   <<"a", "p", "p", "r", "o", "a", "c", "h">>,
                   <<"d", "e", "s", "i", "g", "n">>,
                   <<"a", "r", "c", "h", "i", "t", "e", "c", "t", "u", "r", "e">>,
                   <<"s", "y", "s", "t", "e", "m">>,
                   <<"m", "o", "d", "e", "l">>}

\* A few of the English stop words NLTK supplies; none is a heading keyword.
EnglishStopwords == {<<"t", "h", "e">>,
                    <<"o", "f">>,
                    <<"a", "n", "d">>,
                    <<"a">>,
                    <<"i", "s">>,
                    <<"t", "o">>,
                    <<"i", "n">>,
                    <<"b", "y">>,
                    <<"a", "b", "o", "u", "t">>}

\* self.stopwords
Stopwords(mode) == IF NltkAvailable(mode) THEN EnglishStopwords ELSE {}

\* _analyze_document_structure: stats["has_numbered_sections"]
HasNumberedSections(pages) ==
    \E i \in 1..Len(BlocksOf(pages)) : MatchNumberedSection(strip(BlocksOf(pages)[i].text))

\* len(re.sub(r'[^\w\s]', '', text))
AlphaChars(text) ==
    Cardinality({i \in 1..Len(text) : text[i] \in WordChar \cup Whitespace})

EndsWith(t, c) == t # <<>> /\ t[Len(t)] = c

\* len(text.split('.'))
DotParts(t) == Cardinality({i \in 1..Len(t) : t[i] = "."}) + 1

_is_potential_heading(text) ==
    /\ ~(Len(text) < min_heading_length \/ Len(text) > max_heading_length)
    /\ ~(10 * AlphaChars(text) < 6 * Len(text))
    /\ ~((EndsWith(text, ".") \/ EndsWith(text, "!")) /\ DotParts(text) > 1)
    /\ ~(Len(split(text)) > MaxSentenceWords /\ EndsWith(text, "."))
    /\ ~MatchCaption(text)

RECURSIVE MaxSizeFrom(_, _, _)
MaxSizeFrom(spans, i, m) ==
    IF i > Len(spans) THEN m ELSE MaxSizeFrom(spans, i + 1, Max(m, spans[i].size))

_get_max_font_size(block) == MaxSizeFrom(block.spans, 1, 0)

_has_bold_text(block) == \E i \in 1..Len(block.spans) : block.spans[i].is_bold

RECURSIVE SumLen(_, _)
SumLen(blocks, i) ==
    IF i > Len(blocks) THEN 0 ELSE Len(blocks[i].text) + SumLen(blocks, i + 1)

\* text_length < (total_length / block_count) * 0.5
_is_text_isolated(block, page) ==
    /\ Len(page.blocks) # 0
    /\ 2 * Len(page.blocks) * Len(block.text) < SumLen(page.blocks, 1)

_get_pattern_score(text, has_numbered) ==
    IF MatchesHeadingPattern(strip(text)) THEN 2
    ELSE IF MatchWeakNumbered(strip(text)) THEN (IF has_numbered THEN 2 ELSE 1)
    ELSE IF MatchWeakNumbered2(strip(text)) THEN 1
    ELSE 0

\* re.findall(r'\b\w+\b', text): the maximal runs of word characters
RECURSIVE WordsFrom(_, _)
WordsFrom(t, i) ==
    LET a == SkipUntil(t, i, WordChar)
        b == SkipWhile(t, a, WordChar)
    IN  IF a > Len(t) THEN <<>>
        ELSE <<SubSeq(t, a, b - 1)>> \o WordsFrom(t, b)

_get_keyword_score(text, mode) ==
    LET words == WordsFrom(lower(text), 1)
        keyword_matches ==
            Cardinality({i \in 1..Len(words) :
                            words[i] \notin Stopwords(mode) /\ words[i] \in HeadingKeywords})
    IN  IF keyword_matches >= 2 THEN 2
        ELSE IF keyword_matches >= 1 THEN 1
        ELSE 0

SizeScore(font_size, th) ==
    IF font_size >= th.h1 THEN 3
    ELSE IF font_size >= th.h2 THEN 2
    ELSE IF font_size >= th.h3 THEN 1
    ELSE 0

\* The ranges of the five scores.
PatternScores == 0..2
SizeScores == 0..3
BoldScores == 0..1
IsolationScores == 0..1
KeywordScores == 0..2

\* The decision on the total score alone, without the tests on single scores.
LevelOfScores_TotalOnly(pattern_score, size_score, bold_score, isolation_score, keyword_score) ==
    LET total_score == (pattern_score * 2) + size_score + bold_score
                       + isolation_score + keyword_score
    IN  IF total_score >= 6 THEN "H1"
        ELSE IF total_score >= 4 THEN "H2"
        ELSE IF total_score >= 3 THEN "H3"
        ELSE "None"

\* The decision with each level given to its exact total only.
LevelOfScores_ExactTotals(pattern_score, size_score, bold_score, isolation_score, keyword_score) ==
    LET total_score == (pattern_score * 2) + size_score + bold_score
                       + isolation_score + keyword_score
    IN  IF total_score = 6 \/ pattern_score >= 2 THEN "H1"
        ELSE IF total_score = 4 \/ (size_score >= 2 /\ pattern_score >= 1) THEN "H2"
        ELSE IF total_score = 3
                \/ (size_score >= 1 /\ (pattern_score >= 1 \/ keyword_score >= 1))
        THEN "H3"
        ELSE "None"

\* The decision of _classify_text_as_heading on the five scores.
LevelOfScores(pattern_score, size_score, bold_score, isolation_score, keyword_score) ==
    LET total_score == (pattern_score * 2) + size_score + bold_score
                       + isolation_score + keyword_score
    IN  IF total_score >= 6 \/ pattern_score >= 2 THEN "H1"
        ELSE IF total_score >= 4 \/ (size_score >= 2 /\ pattern_score >= 1) THEN "H2"
        ELSE IF total_score >= 3
                \/ (size_score >= 1 /\ (pattern_score >= 1 \/ keyword_score >= 1))
        THEN "H3"
        ELSE "None"

_classify_text_as_heading(text, font_size, is_bold, th, is_isolated, has_numbered, mode) ==
    LevelOfScores(_get_pattern_score(text, has_numbered),
                  SizeScore(font_size, th),
                  IF is_bold THEN 1 ELSE 0,
                  IF is_isolated THEN 1 ELSE 0,
                  _get_keyword_score(text, mode))

\* _classify_page_headings
RECURSIVE ClassifyBlocks(_, _, _, _, _)
ClassifyBlocks(page, i, th, has_numbered, mode) ==
    IF i > Len(page.blocks) THEN <<>>
    ELSE LET block == page.blocks[i]
             text == strip(block.text)
             heading_type ==
                 _classify_text_as_heading(text, _get_max_font_size(block),
                                           _has_bold_text(block), th,
                                           _is_text_isolated(block, page),
                                           has_numbered, mode)
         IN  (IF _is_potential_heading(text) /\ heading_type # "None"
              THEN <<[type |-> heading_type, text |-> text, page |-> page.page_number]>>
              ELSE <<>>)
             \o ClassifyBlocks(page, i + 1, th, has_numbered, mode)

\* _classify_page_headings without the test of line 281: every candidate block
\* becomes an entry, whatever _classify_text_as_heading answered.
RECURSIVE ClassifyBlocks_KeepUnclassified(_, _, _, _, _)
ClassifyBlocks_KeepUnclassified(page, i, th, has_numbered, mode) ==
    IF i > Len(page.blocks) THEN <<>>
    ELSE LET block == page.blocks[i]
             text == strip(block.text)
             heading_type ==
                 _classify_text_as_heading(text, _get_max_font_size(block),
                                           _has_bold_text(block), th,
                                           _is_text_isolated(block, page),
                                           has_numbered, mode)
         IN  (IF _is_potential_heading(text)
              THEN <<[type |-> heading_type, text |-> text, page |-> page.page_number]>>
              ELSE <<>>)
             \o ClassifyBlocks_KeepUnclassified(page, i + 1, th, has_numbered, mode)

_classify_page_headings_KeepUnclassified(page, th, has_numbered, mode) ==
    ClassifyBlocks_KeepUnclassified(page, 1, th, has_numbered, mode)

_classify_page_headings(page, th, has_numbered, mode) ==
    ClassifyBlocks(page, 1, th, has_numbered, mode)

\* The page loop of classify_headings run from the last page to the first.
ClassifiedHeadings_LastPageFirst(pages, mode) ==
    LET size_thresholds == _calculate_font_thresholds(FontMetricsOf(pages))
        has_numbered == HasNumberedSections(pages)
    IN  Flatten([i \in 1..Len(pages) |->
                    _classify_page_headings(pages[Len(pages) + 1 - i], size_thresholds,
                                            has_numbered, mode)])

\* classify_headings up to line 118: the headings of all pages, in page order.
ClassifiedHeadings(pages, mode) ==
    LET size_thresholds == _calculate_font_thresholds(FontMetricsOf(pages))
        has_numbered == HasNumberedSections(pages)
    IN  Flatten([i \in 1..Len(pages) |->
                    _classify_page_headings(pages[i], size_thresholds, has_numbered, mode)])

\* The elements of hs at the positions in keep, in order.
RECURSIVE KeepAt(_, _, _)
KeepAt(hs, i, keep) ==
    IF i > Len(hs) THEN <<>>
    ELSE (IF i \in keep THEN <<hs[i]>> ELSE <<>>) \o KeepAt(hs, i + 1, keep)

\* _apply_nlp_filtering: spaCy or NLTK decides which headings have content;
\* keep holds the positions of those it lets through.
_apply_nlp_filtering(hs, keep) == KeepAt(hs, 1, keep)

\* The characters word_tokenize makes tokens of their own, besides a full stop
\* at the end of the text.
TokenBreaks == {",", ":", ";", "!", "?", "(", ")", "[", "]", "\"", "@", "#", "$", "%", "&"}

\* word_tokenize(text.lower()) as far as its alphabetic tokens go: the runs of
\* characters between white space and the characters split off.
RECURSIVE TokensFrom(_, _)
TokensFrom(t, i) ==
    LET a == SkipWhile(t, i, Whitespace \cup TokenBreaks)
        b == SkipUntil(t, a, Whitespace \cup TokenBreaks)
    IN  IF a > Len(t) THEN <<>>
        ELSE <<SubSeq(t, a, b - 1)>> \o TokensFrom(t, b)

word_tokenize(t) ==
    TokensFrom(IF EndsWith(t, ".") THEN SubSeq(t, 1, Len(t) - 1) ELSE t, 1)

\* t.isalpha() for a token
isalpha(t) == t # <<>> /\ \A i \in 1..Len(t) : t[i] \in Letter

\* The NLTK branch of _apply_nlp_filtering: the positions of the headings
\* with a content token, an alphabetic token that is no stop word.
NltkKeeps(hs) ==
    {i \in 1..Len(hs) :
        LET tokens == word_tokenize(lower(hs[i].text))
        IN  \E k \in 1..Len(tokens) :
                isalpha(tokens[k]) /\ tokens[k] \notin EnglishStopwords}

\* classify_headings: the lists the call can return.  Without a library there
\* is one.  With NLTK the headings without content token are dropped, or all are
\* kept when word_tokenize raises (its tokenizer data is not installed).  With
\* spaCy the list ranges over what its tagger may say about the headings.
classify_headings(pages, mode) ==
    LET refined == _refine_heading_hierarchy(ClassifiedHeadings(pages, mode))
    IN  IF mode = "none" THEN {refined}
        ELSE IF NltkAvailable(mode)
        THEN {_apply_nlp_filtering(refined, NltkKeeps(refined)), refined}
        ELSE {_apply_nlp_filtering(refined, keep) : keep \in SUBSET (1..Len(refined))}

-----------------------------------------------------------------------------
(* The fast path: PDFProcessor.process_pdf *)

max_pages == 50
DefaultSize == 12

FastKeywords == {<<"i", "n", "t", "r", "o", "d", "u", "c", "t", "i", "o", "n">>,
                <<"c", "o", "n", "c", "l", "u", "s", "i", "o", "n">>,
                <<"s", "u", "m", "m", "a", "r", "y">>,
                <<"o", "v", "e", "r", "v", "i", "e", "w">>,
                <<"b", "a", "c", "k", "g", "r", "o", "u", "n", "d">>,
                <<"a", "b", "s", "t", "r", "a", "c", "t">>,
                <<"r", "e", "f", "e", "r", "e", "n", "c", "e", "s">>,
                <<"a", "c", "k", "n", "o", "w", "l", "e", "d", "g", "m", "e", "n", "t", "s">>,
                <<"a", "p", "p", "e", "n", "d", "i", "x">>,
                <<"c", "o", "n", "t", "e", "n", "t", "s">>,
                <<"m", "e", "t", "h", "o", "d", "o", "l", "o", "g", "y">>,
                <<"r", "e", "s", "u", "l", "t", "s">>,
                <<"d", "i", "s", "c", "u", "s", "s", "i", "o", "n">>,
                <<"a", "n", "a", "l", "y", "s", "i", "s">>}

_is_potential_heading_fast(text) ==
    /\ ~(Len(text) < min_heading_length \/ Len(text) > max_heading_length)
    /\ ~(EndsWith(text, ".") /\ Len(split(text)) > MaxSentenceWords)
    /\ ~MatchCaption(text)

\* self.heading_patterns[:4]
MatchesFastPattern(t) ==
    MatchNumbered(t) \/ MatchNumbered2(t) \/ MatchChapter(t) \/ MatchRoman(t)

_classify_text_fast(text, font_size, is_bold, th) ==
    LET pattern_score == IF MatchesFastPattern(strip(text)) THEN 2 ELSE 0
        size_score == SizeScore(font_size, th)
        lowered == lower(text)
        keyword_score == IF \E k \in FastKeywords : Contains(lowered, k) THEN 1 ELSE 0
        bold_score == IF is_bold THEN 1 ELSE 0
        total_score == pattern_score + size_score + bold_score + keyword_score
    IN  IF total_score >= 4 THEN "H1"
        ELSE IF total_score >= 3 THEN "H2"
        ELSE IF total_score >= 2 THEN "H3"
        ELSE "None"

\* max((span.get("size", 12) for span in spans), default=12)
MaxSizeFast(block) ==
    IF block.spans = <<>> THEN DefaultSize
    ELSE MaxSizeFrom(block.spans, 2, block.spans[1].size)

RECURSIVE ClassifyBlocksFast(_, _, _)
ClassifyBlocksFast(page, i, th) ==
    IF i > Len(page.blocks) THEN <<>>
    ELSE LET block == page.blocks[i]
             text == strip(block.text)
             heading_level == _classify_text_fast(text, MaxSizeFast(block),
                                                  _has_bold_text(block), th)
         IN  (IF _is_potential_heading_fast(text) /\ heading_level # "None"
              THEN <<[level |-> heading_level, text |-> text, page |-> page.page_number]>>
              ELSE <<>>)
             \o ClassifyBlocksFast(page, i + 1, th)

\* The fast refinement raising every entry that stands before the first H1.
_refine_hierarchy_fast_RaiseLeading(hs) ==
    [i \in 1..Len(hs) |->
        IF \A j \in 1..i : hs[j].level # "H1" THEN [hs[i] EXCEPT !.level = "H1"] ELSE hs[i]]

_refine_hierarchy_fast(hs) ==
    IF hs = <<>> THEN hs
    ELSE IF hs[1].level # "H1" THEN [hs EXCEPT ![1].level = "H1"]
    ELSE hs

_classify_headings_fast(pages, th) ==
    _refine_hierarchy_fast(Flatten([i \in 1..Len(pages) |-> ClassifyBlocksFast(pages[i], 1, th)]))

\* process_pdf, lines 87-128, on a document the extractor could open.
process_pdf(pages, name) ==
    LET page_count == IF Len(pages) < max_pages THEN Len(pages) ELSE max_pages
        read_pages == SubSeq(pages, 1, page_count)
    IN  IF page_count = 0 THEN [title |-> <<>>, outline |-> <<>>]
        ELSE [title |-> _extract_title_fast(read_pages, name),
              outline |-> _classify_headings_fast(
                              read_pages, _calculate_thresholds_fast(FontMetricsOf(read_pages)))]

-----------------------------------------------------------------------------
(* Processing a document: the extractor hands over the pages, then one of the *)
(* two entry paths computes the title and the outline.                        *)

\* The extractor reaches the next page of the document.
AddPage ==
    /\ called = "none"
    /\ Len(pages_data) < MaxPages
    /\ pages_data' = Append(pages_data,
                            [page_number |-> Len(pages_data) + 1, blocks |-> <<>>])
    /\ UNCHANGED <<called, nlp, result_title, result_outline>>
    /\ UNCHANGED <<varsRefine, varsThresholds, varsFilename>>
    /\ UNCHANGED varsOther

\* The extractor appends a text block to the page it is on.
AddBlock(b) ==
    /\ called = "none"
    /\ pages_data # <<>>
    /\ TotalBlocks(pages_data) < MaxBlocks
    /\ pages_data' = [pages_data EXCEPT ![Len(pages_data)].blocks = Append(@, b)]
    /\ UNCHANGED <<called, nlp, result_title, result_outline>>
    /\ UNCHANGED <<varsRefine, varsThresholds, varsFilename>>
    /\ UNCHANGED varsOther

\* The classifier path: extract_title, then classify_headings, on the same pages.
ExtractHeadings(mode) ==
    /\ called = "none"
    /\ called' = "classifier"
    /\ nlp' = mode
    /\ LET headings_out == classify_headings(pages_data, mode)
       IN  \E name \in DocNames :
               /\ filename' = name
               /\ result_title' \in extract_title(pages_data, name, mode)
               /\ result_outline' \in headings_out
    /\ UNCHANGED pages_data
    /\ UNCHANGED <<varsRefine, varsThresholds, cleaned, cleaned_fast, cleaned_done>>
    /\ UNCHANGED varsOther

\* The fast path: PDFProcessor.process_pdf.
ProcessPdf(name) ==
    /\ called = "none"
    /\ called' = "process_pdf"
    /\ filename' = name
    /\ LET result == process_pdf(pages_data, name)
       IN  /\ result_title' = result.title
           /\ result_outline' = result.outline
    /\ UNCHANGED <<pages_data, nlp>>
    /\ UNCHANGED <<varsRefine, varsThresholds, cleaned, cleaned_fast, cleaned_done>>
    /\ UNCHANGED varsOther

InitDoc ==
    /\ IdleRefine
    /\ IdleOther
    /\ IdleThresholds
    /\ IdleFilename
    /\ IdleDoc

NextDoc ==
    \/ AddPage
    \/ \E b \in Blocks : AddBlock(b)
    \/ \E mode \in NlpModes : ExtractHeadings(mode)
    \/ \E name \in DocNames : ProcessPdf(name)

SpecDoc == InitDoc /\ [][NextDoc]_vars

\* The same processing on documents of headings and body lines.
InitBody ==
    /\ IdleRefine
    /\ IdleOther
    /\ IdleThresholds
    /\ IdleFilename
    /\ IdleDoc

NextBody ==
    \/ AddPage
    \/ \E b \in BodyBlocks : AddBlock(b)
    \/ \E mode \in NlpModes : ExtractHeadings(mode)
    \/ \E name \in DocNames : ProcessPdf(name)

SpecBody == InitBody /\ [][NextBody]_vars

-----------------------------------------------------------------------------
(* Properties of a processed document *)

\* The spans of the first page that pass the length and page-number tests of
\* both title scans.
FirstPageTitleSpans ==
    {i \in 1..Len(SpansOf(pages_data[1].blocks)) :
        LET text == strip(SpansOf(pages_data[1].blocks)[i].text)
        IN  /\ Len(text) >= MinTitleLen /\ Len(text) <= MaxTitleLen
            /\ ~AllDigits(text)}

\* The blocks that pass the filter of the path that processed the document.
EligibleBlocks ==
    {i \in 1..TotalBlocks(pages_data) :
        IF called = "classifier"
        THEN _is_potential_heading(strip(BlocksOf(pages_data)[i].text))
        ELSE _is_potential_heading_fast(strip(BlocksOf(pages_data)[i].text))}

\* C7: when zero pages are supplied, the title is the empty string and the
\* outline is empty, for every file name, on the fast path and on the classifier
\* path.
C7_EmptyInput ==
    (called # "none" /\ pages_data = <<>>)
        => (result_title = <<>> /\ result_outline = <<>>)

\* C8: when at least one page is supplied and no span of the first page
\* qualifies as a title candidate, the title returned on either path is a
\* non-empty string for every file name, and the outline is empty when no block
\* is eligible.
C8_FallbackTitleNonEmpty ==
    (called # "none" /\ pages_data # <<>> /\ FirstPageTitleSpans = {})
        => /\ result_title # <<>>
           /\ EligibleBlocks = {} => result_outline = <<>>

\* A text that begins, after optional whitespace, with figure, table, chart or
\* graph in any mix of cases, then whitespace, then a digit.
IsCaption(t) ==
    \E a \in 0..Len(t) :
        /\ \A i \in 1..a : t[i] \in Whitespace
        /\ \E w \in CaptionWords :
              /\ a + Len(w) + 2 <= Len(t)
              /\ \A k \in 1..Len(w) : t[a + k] \in {w[k], upper_char(w[k])}
              /\ \E b \in 1..(Len(t) - a - Len(w) - 1) :
                    /\ \A i \in 1..b : t[a + Len(w) + i] \in Whitespace
                    /\ t[a + Len(w) + b + 1] \in Digit

\* C9: a block whose text is a caption never appears in the outline, whatever
\* its font size, its boldness, the thresholds and the rest of the document, on
\* the classifier path and on the fast path.
C9_CaptionExcluded ==
    called # "none"
        => \A i \in 1..TotalBlocks(pages_data) :
               IsCaption(BlocksOf(pages_data)[i].text)
                   => \A j \in 1..Len(result_outline) :
                          result_outline[j].text # strip(BlocksOf(pages_data)[i].text)

\* The classifier path has processed a document that holds a bold caption in the
\* largest font next to a heading, and has returned a non-empty outline.
C9_Witness ==
    /\ called = "classifier"
    /\ result_outline # <<>>
    /\ \E i \in 1..TotalBlocks(pages_data) :
          /\ IsCaption(BlocksOf(pages_data)[i].text)
          /\ _has_bold_text(BlocksOf(pages_data)[i])
          /\ \A j \in 1..TotalBlocks(pages_data) :
                _get_max_font_size(BlocksOf(pages_data)[i])
                    >= _get_max_font_size(BlocksOf(pages_data)[j])

\* The fast path has processed such a document as well.
C9_WitnessFast ==
    /\ called = "process_pdf"
    /\ result_outline # <<>>
    /\ \E i \in 1..TotalBlocks(pages_data) : IsCaption(BlocksOf(pages_data)[i].text)

\* The stripped text and the page of every block, page by page and, within a
\* page, in block order.
RECURSIVE DocumentOrderFrom(_, _, _)
DocumentOrderFrom(pages, i, j) ==
    IF i > Len(pages) THEN <<>>
    ELSE IF j > Len(pages[i].blocks) THEN DocumentOrderFrom(pages, i + 1, 1)
    ELSE <<[text |-> strip(pages[i].blocks[j].text), page |-> pages[i].page_number]>>
         \o DocumentOrderFrom(pages, i, j + 1)

\* out, from position i on, picks entries of src from position j on without
\* changing their order.
RECURSIVE IsOrderedSelection(_, _, _, _)
IsOrderedSelection(out, i, src, j) ==
    IF i > Len(out) THEN TRUE
    ELSE IF j > Len(src) THEN FALSE
    ELSE IF out[i].text = src[j].text /\ out[i].page = src[j].page
    THEN IsOrderedSelection(out, i + 1, src, j + 1)
    ELSE IsOrderedSelection(out, i, src, j + 1)

\* C11: the outline returned on either path is in document order: its entries
\* are a subsequence of the blocks taken page by page and in block order within
\* a page, and page numbers never decrease along the outline.
C11_DocumentOrder ==
    called # "none"
        => /\ IsOrderedSelection(result_outline, 1, DocumentOrderFrom(pages_data, 1, 1), 1)
           /\ \A i \in 1..(Len(result_outline) - 1) :
                 result_outline[i].page <= result_outline[i + 1].page

\* The classifier path has returned two different headings from two pages.
C11_Witness ==
    /\ called = "classifier"
    /\ Len(result_outline) = 2
    /\ result_outline[1].page < result_outline[2].page
    /\ result_outline[1].text # result_outline[2].text

\* The fast path has returned two headings of different levels from two pages.
C11_WitnessFast ==
    /\ called = "process_pdf"
    /\ Len(result_outline) = 2
    /\ result_outline[1].page < result_outline[2].page
    /\ result_outline[1].level # result_outline[2].level

C12_WitnessFast ==
    /\ called = "process_pdf"
    /\ Len(pages_data) = 2
    /\ Len(pages_data[1].blocks) = 1
    /\ _is_potential_heading_fast(strip(pages_data[1].blocks[1].text))
    /\ Len(result_outline) = 1
    /\ result_outline[1].page = 2

\* C15: whether NLTK or spaCy is available never changes which blocks are in the
\* outline classify_headings returns nor their levels: the outline equals the
\* one computed without either library.
C15_NlpIrrelevant ==
    called = "classifier"
        => result_outline = _refine_heading_hierarchy(ClassifiedHeadings(pages_data, "none"))

\* The headings of the fast path as classified, before _refine_hierarchy_fast.
FastClassified(pages) ==
    Flatten([i \in 1..Len(pages) |->
                ClassifyBlocksFast(pages[i], 1, _calculate_thresholds_fast(FontMetricsOf(pages)))])

\* C30: on the fast path the first entry of a non-empty outline is H1 and every
\* other entry has the level, text and page it was classified with; so no H2
\* or H3 stands before the first H1.
C30_FastFirstH1 ==
    called = "process_pdf" /\ pages_data # <<>> =>
        LET raw == FastClassified(pages_data)
        IN  /\ Len(result_outline) = Len(raw)
            /\ raw # <<>> =>
                   /\ result_outline[1] = [raw[1] EXCEPT !.level = "H1"]
                   /\ \A i \in 2..Len(raw) : result_outline[i] = raw[i]
                   /\ \A i \in 1..Len(raw) :
                          result_outline[i].level # "H1" =>
                              \E j \in 1..(i - 1) : result_outline[j].level = "H1"

\* The fast path has returned an outline whose first entry was not classified
\* H1 and whose second entry is not H1 either.
C30_Witness ==
    /\ called = "process_pdf"
    /\ pages_data # <<>>
    /\ Len(result_outline) >= 2
    /\ FastClassified(pages_data)[1].level # "H1"
    /\ result_outline[2].level # "H1"

-----------------------------------------------------------------------------
(* The threshold calculators on their own *)

InitThresholds ==
    /\ IdleRefine
    /\ IdleOther
    /\ IdleThresholds
    /\ IdleFilename
    /\ IdleDoc

NextThresholds ==
    \/ \E f \in Fonts, sizes \in PageSizeLists : ExtendSizes(f, sizes)
    \/ CalculateThresholds
    \/ CalculateThresholdsFast

SpecThresholds == InitThresholds /\ [][NextThresholds]_vars

Monotone(t) == t.h1 >= t.h2 /\ t.h2 >= t.h3 /\ t.h3 >= t.body

\* C5: for a non-empty multiset of font sizes, the thresholds of both calculators
\* satisfy h1 >= h2 >= h3 >= body.
C5_ThresholdsMonotone ==
    AllSizes(font_metrics) # <<>> =>
        /\ "classifier" \in calculated => Monotone(thresholds)
        /\ "fast" \in calculated => Monotone(thresholds_fast)

\* Both calculators have run on sizes whose percentile elements all differ, the
\* classifier h1 being a size of the document and not the floor body + 4.
C5_Witness ==
    /\ calculated = {"classifier", "fast"}
    /\ Len(AllSizes(font_metrics)) >= 7
    /\ thresholds.h1 > thresholds.body + 4
    /\ thresholds.h1 > thresholds.h2 /\ thresholds.h2 > thresholds.h3
    /\ thresholds_fast.h1 > thresholds_fast.h2
    /\ thresholds_fast.h2 > thresholds_fast.h3
    /\ thresholds_fast.h3 > thresholds_fast.body

\* C6: with no font sizes at all (no font entry, or only entries with an empty
\* size list) both calculators return exactly {h1: 16, h2: 14, h3: 12, body: 10}.
C6_DefaultThresholds ==
    (\A f \in DOMAIN font_metrics : font_metrics[f] = <<>>) =>
        /\ "classifier" \in calculated => thresholds = DefaultThresholds
        /\ "fast" \in calculated => thresholds_fast = DefaultThresholds

\* Both calculators have run on font metrics holding a font with an empty size list.
C6_Witness ==
    /\ calculated = {"classifier", "fast"}
    /\ DOMAIN font_metrics # {}
    /\ \A f \in DOMAIN font_metrics : font_metrics[f] = <<>>

\* Both calculators have run on font metrics holding no font at all.
C6_WitnessNoFonts ==
    /\ calculated = {"classifier", "fast"}
    /\ DOMAIN font_metrics = {}

Separated(t) == t.h1 >= t.body + 4 /\ t.h2 >= t.body + 2 /\ t.h3 >= t.body + 1

\* C21: for a non-empty multiset of font sizes, the thresholds of both calculators
\* satisfy h1 >= body + 4, h2 >= body + 2 and h3 >= body + 1, so that a block whose
\* largest span has the body size gets size score 0.
C21_MinimumSeparation ==
    AllSizes(font_metrics) # <<>> =>
        /\ "classifier" \in calculated =>
               Separated(thresholds) /\ SizeScore(thresholds.body, thresholds) = 0
        /\ "fast" \in calculated =>
               Separated(thresholds_fast) /\ SizeScore(thresholds_fast.body, thresholds_fast) = 0

-----------------------------------------------------------------------------
(* The two _clean_filename functions on their own *)

InitFilename ==
    /\ IdleRefine
    /\ IdleOther
    /\ IdleThresholds
    /\ IdleDoc
    /\ filename \in StartNames
    /\ cleaned = <<>>
    /\ cleaned_fast = <<>>
    /\ cleaned_done = FALSE

NextFilename ==
    \/ \E c \in NameChars : TypeChar(c)
    \/ CleanFilename

SpecFilename == InitFilename /\ [][NextFilename]_vars

\* The title the claim describes, built in one pass over the name without its
\* extension: st = [out, gap, start], gap = a separator was seen since the last
\* character copied, start = the next character copied begins a word.
Separator == Whitespace \cup {"_", "-"}

TitleScan(st, c) ==
    IF c \in Separator THEN [st EXCEPT !.gap = TRUE, !.start = TRUE]
    ELSE [out |-> st.out
                  \o (IF st.gap /\ st.out # <<>> THEN <<" ">> ELSE <<>>)
                  \o <<IF st.start THEN upper_char(c) ELSE lower_char(c)>>,
          gap |-> FALSE, start |-> FALSE]

RECURSIVE TitleFold(_, _, _)
TitleFold(t, i, st) ==
    IF i > Len(t) THEN st.out ELSE TitleFold(t, i + 1, TitleScan(st, t[i]))

Stem(name) ==
    IF \E i \in 1..Len(name) : name[i] = "."
    THEN SubSeq(name, 1, (CHOOSE i \in 1..Len(name) :
                             name[i] = "." /\ \A j \in (i + 1)..Len(name) : name[j] # ".") - 1)
    ELSE name

ExpectedTitle(name) ==
    TitleFold(Stem(name), 1, [out |-> <<>>, gap |-> FALSE, start |-> TRUE])

\* C10 as claimed: _clean_filename returns the file name with its extension
\* stripped, '_' and '-' replaced by spaces, whitespace collapsed and every word
\* capitalized; the empty file name gives "Untitled Document".
C10_CleanFilename ==
    cleaned_done =>
        /\ filename = <<>> => cleaned = UntitledDocument /\ cleaned_fast = UntitledDocument
        /\ filename # <<>> =>
              cleaned = ExpectedTitle(filename) /\ cleaned_fast = ExpectedTitle(filename)

\* C10 as amended: as claimed, except that PDFProcessor._clean_filename gives
\* "Untitled Document" also for a non-empty file name whose cleaned form is empty.
C10_CleanFilenameOrPlaceholder ==
    cleaned_done =>
        /\ cleaned = IF filename = <<>> THEN UntitledDocument ELSE ExpectedTitle(filename)
        /\ cleaned_fast = IF ExpectedTitle(filename) = <<>> THEN UntitledDocument
                          ELSE ExpectedTitle(filename)

\* "annual_report-2024.pdf" has been cleaned to "Annual Report 2024" by both.
C10_Witness ==
    /\ cleaned_done
    /\ filename = SampleName
    /\ cleaned = <<"A", "n", "n", "u", "a", "l", " ", "R", "e", "p", "o", "r", "t", " ", "2", "0", "2", "4">>
    /\ cleaned_fast = cleaned

\* A typed name with an extension, a separator and a mixed-case word has been cleaned.
C10_WitnessTyped ==
    /\ cleaned_done
    /\ filename = <<"a", "B", "_", "2">>
    /\ cleaned = <<"A", "b", " ", "2">>
    /\ cleaned_fast = cleaned

-----------------------------------------------------------------------------
(* The level decision on its own: any five scores, then the decision *)

\* _classify_text_as_heading, lines 369-379, on the scores at hand.
ClassifyScores ==
    /\ score_level = "unset"
    /\ score_level' = LevelOfScores(score_input.pattern, score_input.size, score_input.bold,
                                    score_input.isolation, score_input.keyword)
    /\ UNCHANGED score_input
    /\ UNCHANGED <<varsRefine, varsThresholds, varsFilename, varsDoc>>
    /\ UNCHANGED <<varsCalls, varsBatch, varsText, varsService>>

InitScores ==
    /\ IdleRefine
    /\ IdleThresholds
    /\ IdleFilename
    /\ IdleDoc
    /\ IdleCalls
    /\ IdleBatch
    /\ IdleText
    /\ IdleService
    /\ score_input \in [pattern : PatternScores, size : SizeScores, bold : BoldScores,
                         isolation : IsolationScores, keyword : KeywordScores]
    /\ score_level = "unset"

NextScores == ClassifyScores

SpecScores == InitScores /\ [][NextScores]_vars

\* C16: with total = 2 * pattern + size + bold + isolation + keyword, the level is
\* H1 if total >= 6 or pattern = 2; otherwise H2 if total >= 4 or (size >= 2 and
\* pattern >= 1); otherwise H3 if total >= 3 or (size >= 1 and (pattern >= 1 or
\* keyword >= 1)); otherwise none.  A pattern score of 2 gives H1 whatever the size.
C16_LevelDecision ==
    score_level # "unset"
        => LET p == score_input.pattern
               z == score_input.size
               k == score_input.keyword
               total == 2 * p + z + score_input.bold + score_input.isolation + k
           IN  /\ (total >= 6 \/ p = 2) => score_level = "H1"
               /\ (~(total >= 6 \/ p = 2) /\ (total >= 4 \/ (z >= 2 /\ p >= 1)))
                      => score_level = "H2"
               /\ (/\ ~(total >= 6 \/ p = 2)
                   /\ ~(total >= 4 \/ (z >= 2 /\ p >= 1))
                   /\ (total >= 3 \/ (z >= 1 /\ (p >= 1 \/ k >= 1))))
                      => score_level = "H3"
               /\ (/\ ~(total >= 6 \/ p = 2)
                   /\ ~(total >= 4 \/ (z >= 2 /\ p >= 1))
                   /\ ~(total >= 3 \/ (z >= 1 /\ (p >= 1 \/ k >= 1))))
                      => score_level = "None"

\* A strong pattern match on a text of body size, not bold, not isolated and
\* without keyword has been decided H1 on a total of 4.
C16_Witness ==
    /\ score_level = "H1"
    /\ score_input = [pattern |-> 2, size |-> 0, bold |-> 0, isolation |-> 0, keyword |-> 0]

\* The order None < H3 < H2 < H1.
LevelRank(level) ==
    IF level = "H1" THEN 3 ELSE IF level = "H2" THEN 2 ELSE IF level = "H3" THEN 1 ELSE 0

ScoreNames == {"pattern", "size", "bold", "isolation", "keyword"}

ScoreRange(name) ==
    IF name = "pattern" THEN PatternScores
    ELSE IF name = "size" THEN SizeScores
    ELSE IF name = "bold" THEN BoldScores
    ELSE IF name = "isolation" THEN IsolationScores
    ELSE KeywordScores

LevelOf(s) == LevelOfScores(s.pattern, s.size, s.bold, s.isolation, s.keyword)

\* C29: raising any one of the five scores, the others fixed, never gives a
\* lower level than the one decided.
C29_MonotoneDecision ==
    score_level # "unset" =>
        \A name \in ScoreNames : \A v \in ScoreRange(name) :
            v > score_input[name] =>
                LevelRank(LevelOf([score_input EXCEPT ![name] = v])) >= LevelRank(score_level)

\* A weak pattern match in bold has been decided H3; with a strong match the
\* same text would be H1, and without the bold it would be no heading.
C29_Witness ==
    /\ score_level = "H3"
    /\ score_input = [pattern |-> 1, size |-> 0, bold |-> 1, isolation |-> 0, keyword |-> 0]
    /\ LevelOf([score_input EXCEPT !.pattern = 2]) = "H1"
    /\ LevelOf([score_input EXCEPT !.bold = 0]) = "None"

-----------------------------------------------------------------------------
(* The title scan on its own: spans on the first page, then extract_title *)

SummarySpan == Span(<<"S", "u", "m", "m", "a", "r", "y">>, 24, "Helvetica", FALSE)
BannerSpan == Span(<<"*", "*", "*", " ", "A", "N", "N", "U", "A", "L", " ", "R", "E", "P",
                    "O", "R", "T", " ", "*", "*", "*">>,
                   24, "Helvetica", FALSE)
DraftSpan == Span(<<"D", "r", "a", "f", "t", " ", "P", "r", "o", "p", "o", "s", "a", "l">>,
                  30, "Helvetica", FALSE)
DigitsSpan == Span(<<"1", "2", "3", "4", "5">>, 30, "Helvetica", FALSE)

\* The spans the first page can hold.
TitleSpans == {TitleSpan, CaptionSpan, SummarySpan, BannerSpan, DraftSpan, DigitsSpan,
               ChapterSpan}

\* The extractor appends a block of one span to the first page.
AddTitleBlock(span) ==
    /\ called = "none"
    /\ Len(pages_data[1].blocks) < MaxTitleSpans
    /\ pages_data' = [pages_data EXCEPT ![1].blocks = Append(@, Block(<<span>>))]
    /\ UNCHANGED <<called, nlp, result_title, result_outline>>
    /\ UNCHANGED <<varsRefine, varsThresholds, varsFilename>>
    /\ UNCHANGED varsOther

\* extract_title on the pages, with the file name of the upload.
ExtractTitle(mode, name) ==
    /\ called = "none"
    /\ called' = "extract_title"
    /\ nlp' = mode
    /\ filename' = name
    /\ result_title' \in extract_title(pages_data, name, mode)
    /\ UNCHANGED <<pages_data, result_outline>>
    /\ UNCHANGED <<varsRefine, varsThresholds, cleaned, cleaned_fast, cleaned_done>>
    /\ UNCHANGED varsOther

InitTitle ==
    /\ IdleRefine
    /\ IdleOther
    /\ IdleThresholds
    /\ IdleFilename
    /\ pages_data = <<[page_number |-> 1, blocks |-> <<>>]>>
    /\ called = "none"
    /\ nlp = "none"
    /\ result_title = <<>>
    /\ result_outline = <<>>

NextTitle ==
    \/ \E span \in TitleSpans : AddTitleBlock(span)
    \/ \E mode \in NlpModes, name \in DocNames : ExtractTitle(mode, name)

SpecTitle == InitTitle /\ [][NextTitle]_vars

\* The first-page spans whose stripped text has 5 to 100 characters, is not made
\* of digits only and holds none of the header and footer words in any letter case.
TitleEligible ==
    LET spans == SpansOf(pages_data[1].blocks)
    IN  {i \in 1..Len(spans) :
            LET text == strip(spans[i].text)
            IN  /\ Len(text) >= 5 /\ Len(text) <= 100
                /\ ~AllDigits(text)
                /\ \A w \in FooterWords : ~Contains(lower(text), w)}

\* C17: a title extract_title takes from the first page is the text of a span
\* with the length, digit and footer-word conditions above whose size is the
\* largest among the spans that meet them.
C17_TitleFromLargestEligible ==
    (called = "extract_title" /\ TitleEligible # {})
        => LET spans == SpansOf(pages_data[1].blocks)
           IN  \E i \in TitleEligible :
                   /\ result_title = strip(spans[i].text)
                   /\ \A j \in TitleEligible : spans[j].size <= spans[i].size

\* The first page holds a larger span with a footer word, and the title is the
\* text of a smaller span.
C17_Witness ==
    /\ called = "extract_title"
    /\ Len(pages_data[1].blocks) = 2
    /\ pages_data[1].blocks[1].spans[1] = DraftSpan
    /\ result_title = TitleSpan.text

\* The eligible first-page spans of the largest eligible size: the candidates
\* that tie for the title.
TitleTies ==
    LET spans == SpansOf(pages_data[1].blocks)
    IN  {i \in TitleEligible : \A j \in TitleEligible : spans[j].size <= spans[i].size}

TieText(i) == strip(SpansOf(pages_data[1].blocks)[i].text)

\* C18: when several candidates tie at the largest size and at least one of them
\* has two words or more, extract_title without spaCy returns a candidate of two
\* words or more, never a one-word candidate, whatever their punctuation and
\* letter case.
C18_MultiWordPreferred ==
    (/\ called = "extract_title"
     /\ nlp # "spacy"
     /\ Cardinality(TitleTies) >= 2
     /\ \E i \in TitleTies : Len(split(TieText(i))) >= 2)
        => Len(split(result_title)) >= 2

\* C19: when several candidates tie at the largest size and have the same score,
\* extract_title returns the one that comes first in document order.
C19_FirstOfEqualScore ==
    (/\ called = "extract_title"
     /\ nlp # "spacy"
     /\ Cardinality(TitleTies) >= 2)
        => LET top == {i \in TitleTies :
                          \A j \in TitleTies :
                              TitleScore(TieText(j), 0) <= TitleScore(TieText(i), 0)}
               first == CHOOSE i \in top : \A j \in top : i <= j
           IN  result_title = TieText(first)

-----------------------------------------------------------------------------
(* The sample document of create_sample.py, block by block, then either path *)

SampleParagraphSpan ==
    Span(<<"T", "h", "i", "s", " ", "i", "s", " ", "r", "e", "g", "u",
           "l", "a", "r", " ", "p", "a", "r", "a", "g", "r", "a", "p",
           "h", " ", "t", "e", "x", "t", " ", "t", "h", "a", "t", " ",
           "s", "h", "o", "u", "l", "d", " ", "n", "o", "t", " ", "b",
           "e", " ", "d", "e", "t", "e", "c", "t", "e", "d", " ", "a",
           "s", " ", "a", " ", "h", "e", "a", "d", "i", "n", "g", ".">>,
         12, "Helvetica", FALSE)
SetupSpan == Span(<<"1", ".", "2", " ", "S", "e", "t", "u", "p", " ", "I", "n",
                   "s", "t", "r", "u", "c", "t", "i", "o", "n", "s">>,
                  14, "Helvetica", FALSE)
Chapter2Span == Span(<<"C", "h", "a", "p", "t", "e", "r", " ", "2", ":", " ", "A",
                      "d", "v", "a", "n", "c", "e", "d", " ", "T", "o", "p", "i",
                      "c", "s">>,
                     18, "Helvetica", FALSE)

\* The blocks of the sample page, in the order they are inserted.
SampleBlocks == <<Block(<<TitleSpan>>), Block(<<ChapterSpan>>), Block(<<SectionSpan>>),
                  Block(<<SampleParagraphSpan>>), Block(<<SetupSpan>>),
                  Block(<<Chapter2Span>>)>>

\* The extractor reaches the next block of the sample page.
AddSampleBlock ==
    /\ called = "none"
    /\ Len(pages_data[1].blocks) < Len(SampleBlocks)
    /\ pages_data' = [pages_data EXCEPT
                         ![1].blocks = Append(@, SampleBlocks[Len(@) + 1])]
    /\ UNCHANGED <<called, nlp, result_title, result_outline>>
    /\ UNCHANGED <<varsRefine, varsThresholds, varsFilename>>
    /\ UNCHANGED varsOther

InitSample ==
    /\ IdleRefine
    /\ IdleOther
    /\ IdleThresholds
    /\ IdleFilename
    /\ pages_data = <<[page_number |-> 1, blocks |-> <<>>]>>
    /\ called = "none"
    /\ nlp = "none"
    /\ result_title = <<>>
    /\ result_outline = <<>>

NextSample ==
    \/ AddSampleBlock
    \/ \E mode \in NlpModes : ExtractHeadings(mode)
    \/ \E name \in DocNames : ProcessPdf(name)

SpecSample == InitSample /\ [][NextSample]_vars

\* The returned outline with the level of each entry under the key type.
OutlineLevels ==
    [i \in 1..Len(result_outline) |->
        [type |-> IF called = "classifier" THEN result_outline[i].type
                  ELSE result_outline[i].level,
         text |-> result_outline[i].text,
         page |-> result_outline[i].page]]

\* C14: for the six blocks of the sample page the title is "Document Title" and
\* the outline is exactly Chapter 1, 1.1, 1.2, Chapter 2, in this order, all on
\* page 1, without the title block and without the paragraph, and its levels are
\* a valid hierarchy.
C14_SampleOutline ==
    (/\ called = "process_pdf" \/ (called = "classifier" /\ nlp = "none")
     /\ pages_data[1].blocks = SampleBlocks)
        => /\ result_title = TitleSpan.text
           /\ [i \in 1..Len(result_outline) |-> result_outline[i].text]
                  = <<ChapterSpan.text, SectionSpan.text, SetupSpan.text, Chapter2Span.text>>
           /\ \A i \in 1..Len(result_outline) : result_outline[i].page = 1
           /\ HierarchyValid(OutlineLevels)

-----------------------------------------------------------------------------
(* The running service: one HeadingClassifier instance, created at start-up, *)
(* serves one request after the other.                                        *)

\* The blocks a page of a request can hold, and their texts.
CallBlocks == {Block(<<TitleSpan>>), Block(<<SummarySpan>>)}
CallTexts == {b.text : b \in CallBlocks}

\* What the library found at import can answer, as a function of the text it is
\* given: whether word_tokenize has its data (NLTK); which texts have a content
\* token and are not mostly proper nouns, and how many nouns a text has (spaCy).
Libraries(mode) ==
    IF mode = "none"
    THEN {[tokenizer |-> FALSE, content |-> CallTexts, nouns |-> [t \in CallTexts |-> 0]]}
    ELSE IF NltkAvailable(mode)
    THEN {[tokenizer |-> b, content |-> CallTexts, nouns |-> [t \in CallTexts |-> 0]] :
             b \in BOOLEAN}
    ELSE {[tokenizer |-> FALSE, content |-> c, nouns |-> n] :
             c \in SUBSET CallTexts, n \in [CallTexts -> NounCounts]}

\* extract_title with the answers of the library.
TitleOfCall(pages, name, mode, lib) ==
    IF pages = <<>> THEN _clean_filename(name)
    ELSE LET title_candidates == TitleCandidates(pages)
         IN  IF title_candidates # <<>>
             THEN _select_best_title(title_candidates,
                                     [i \in 1..Len(title_candidates) |->
                                         lib.nouns[title_candidates[i]]])
             ELSE _clean_filename(name)

\* classify_headings with the answers of the library.
HeadingsOfCall(pages, mode, lib) ==
    LET refined == _refine_heading_hierarchy(ClassifiedHeadings(pages, mode))
    IN  IF mode = "none" THEN refined
        ELSE IF NltkAvailable(mode)
        THEN IF lib.tokenizer THEN _apply_nlp_filtering(refined, NltkKeeps(refined))
             ELSE refined
        ELSE _apply_nlp_filtering(refined,
                                  {i \in 1..Len(refined) : refined[i].text \in lib.content})

EmptyPage == [page_number |-> 1, blocks |-> <<>>]

\* The extractor appends a block to the page of the request at hand.
AddCallBlock(b) ==
    /\ called = "none"
    /\ Len(pages_data[1].blocks) < MaxCallBlocks
    /\ pages_data' = [pages_data EXCEPT ![1].blocks = Append(@, b)]
    /\ UNCHANGED <<called, nlp, result_title, result_outline>>
    /\ UNCHANGED <<varsRefine, varsThresholds, varsFilename>>
    /\ UNCHANGED varsOther

\* A request whose input differs from the remembered one has been served since.
NoteCall(name) ==
    IF first_call.served /\ (first_call.pages # pages_data \/ first_call.name # name)
    THEN [first_call EXCEPT !.interleaved = TRUE]
    ELSE first_call

\* The instance keeps the outline of the remembered request and puts it in
\* front of every outline it returns.
ServeCall_KeepHeadings(name) ==
    /\ called = "none"
    /\ called' = "classifier"
    /\ filename' = name
    /\ result_title' = TitleOfCall(pages_data, name, nlp, library)
    /\ result_outline' = first_call.outline \o HeadingsOfCall(pages_data, nlp, library)
    /\ first_call' = NoteCall(name)
    /\ UNCHANGED <<pages_data, nlp, library>>
    /\ UNCHANGED <<varsRefine, varsThresholds, cleaned, cleaned_fast, cleaned_done>>
    /\ UNCHANGED <<varsScores, varsBatch, varsText, varsService>>

\* The handler: extract_title, then classify_headings, on the shared instance.
ServeCall(name) ==
    /\ called = "none"
    /\ called' = "classifier"
    /\ filename' = name
    /\ result_title' = TitleOfCall(pages_data, name, nlp, library)
    /\ result_outline' = HeadingsOfCall(pages_data, nlp, library)
    /\ first_call' = NoteCall(name)
    /\ UNCHANGED <<pages_data, nlp, library>>
    /\ UNCHANGED <<varsRefine, varsThresholds, cleaned, cleaned_fast, cleaned_done>>
    /\ UNCHANGED <<varsScores, varsBatch, varsText, varsService>>

\* The request just served and its response are remembered.
Remember ==
    /\ called = "classifier"
    /\ ~first_call.served
    /\ first_call' = [served |-> TRUE, interleaved |-> FALSE, pages |-> pages_data,
                      name |-> filename, title |-> result_title,
                      outline |-> result_outline]
    /\ UNCHANGED <<varsRefine, varsThresholds, varsFilename, varsDoc>>
    /\ UNCHANGED <<varsScores, varsBatch, varsText, varsService, library>>

\* The response is sent and the next request arrives.
NewRequest ==
    /\ called = "classifier"
    /\ called' = "none"
    /\ pages_data' = <<EmptyPage>>
    /\ filename' = <<>>
    /\ result_title' = <<>>
    /\ result_outline' = <<>>
    /\ UNCHANGED <<nlp, library, first_call>>
    /\ UNCHANGED <<varsRefine, varsThresholds, cleaned, cleaned_fast, cleaned_done>>
    /\ UNCHANGED <<varsScores, varsBatch, varsText, varsService>>

InitCalls ==
    /\ IdleRefine
    /\ IdleScores
    /\ IdleBatch
    /\ IdleText
    /\ IdleService
    /\ IdleThresholds
    /\ IdleFilename
    /\ pages_data = <<EmptyPage>>
    /\ called = "none"
    /\ nlp \in NlpModes
    /\ library \in Libraries(nlp)
    /\ first_call = NoCall
    /\ result_title = <<>>
    /\ result_outline = <<>>

NextCalls ==
    \/ \E b \in CallBlocks : AddCallBlock(b)
    \/ \E name \in DocNames : ServeCall(name)
    \/ Remember
    \/ NewRequest

SpecCalls == InitCalls /\ [][NextCalls]_vars

-----------------------------------------------------------------------------
(* The batch run: process_pdfs.main over the PDF files of the input directory *)

\* The stems of the files the input directory can hold.
Stems == {<<"a">>, <<"m", "y", "_", "d", "o", "c">>,
          <<"q", "3", "-", "r", "e", "p", "o", "r", "t">>}

\* list(input_dir.glob("*.pdf")): distinct files, in the order the directory gives them.
FileLists ==
    {fs \in UNION {[1..n -> Stems] : n \in 0..MaxFiles} :
        \A i, j \in 1..Len(fs) : i # j => fs[i] # fs[j]}

\* What a document of the batch holds when it can be opened.
BatchDocuments == {<<[page_number |-> 1, blocks |-> <<Block(<<ChapterSpan>>)>>]>>}

\* str.title(): a letter after a non-letter is upper-cased, any other letter lower-cased.
title(t) ==
    [i \in 1..Len(t) |->
        IF i = 1 \/ t[i - 1] \notin Letter THEN upper_char(t[i]) ELSE lower_char(t[i])]

\* pdf_file.stem.replace("_", " ").replace("-", " ").title()
StemTitle(stem) == title(sub_separators(stem))

\* pdf_file.name
PdfName(stem) == stem \o <<".", "p", "d", "f">>

\* PDFProcessor.process_pdf with its own handler: a document that cannot be
\* opened or read gives the title of the stem and an empty outline.
ProcessPdfResult(pages, readable, stem) ==
    IF readable THEN process_pdf(pages, PdfName(stem))
    ELSE [title |-> StemTitle(stem), outline |-> <<>>]

\* What open(output_file, "w") followed by json.dump can do: succeed, raise in
\* open (the file is left as it was), or raise after the file was truncated.
WriteOutcomes == {"ok", "open_raises", "dump_raises"}

\* The content of a .json file: none, a truncated file, or a dumped object.
Absent == [kind |-> "absent", title |-> <<>>, outline |-> <<>>]
Partial == [kind |-> "partial", title |-> <<>>, outline |-> <<>>]
Dumped(output) == [kind |-> "json", title |-> output.title, outline |-> output.outline]

\* The content of the file after a write that raised.
AfterFailedWrite(content, outcome) ==
    IF outcome = "open_raises" THEN content ELSE Partial

\* main up to the loop: the input directory is looked up and listed.
StartMain(exists, files) ==
    /\ main_pc = "start"
    /\ pdf_files' = IF exists THEN files ELSE <<>>
    /\ written' = [stem \in {pdf_files'[i] : i \in 1..Len(pdf_files')} |-> Absent]
    /\ main_pc' = IF exists /\ files # <<>> THEN "loop" ELSE "returned"
    /\ UNCHANGED <<file_index, processed_count>>
    /\ UNCHANGED <<varsRefine, varsThresholds, varsFilename, varsDoc, varsScores, varsCalls>>
    /\ UNCHANGED <<varsText, varsService>>

\* One iteration of the loop, lines 53-89: process_pdf, the write of its result
\* and, when that raised, the write of the fallback output in the handler. An
\* exception of the second write is not caught and ends main.
ProcessFile(pages, readable, write, fallback_write) ==
    /\ main_pc = "loop"
    /\ file_index < Len(pdf_files)
    /\ LET pdf_file == pdf_files[file_index + 1]
           result == ProcessPdfResult(pages, readable, pdf_file)
           fallback_output == [title |-> StemTitle(pdf_file), outline |-> <<>>]
           after_try == AfterFailedWrite(written[pdf_file], write)
       IN  IF write = "ok"
           THEN /\ written' = [written EXCEPT ![pdf_file] = Dumped(result)]
                /\ processed_count' = processed_count + 1
                /\ file_index' = file_index + 1
                /\ UNCHANGED main_pc
           ELSE IF fallback_write = "ok"
           THEN /\ written' = [written EXCEPT ![pdf_file] = Dumped(fallback_output)]
                /\ file_index' = file_index + 1
                /\ UNCHANGED <<processed_count, main_pc>>
           ELSE /\ written' = [written EXCEPT
                                  ![pdf_file] = AfterFailedWrite(after_try, fallback_write)]
                /\ main_pc' = "raised"
                /\ UNCHANGED <<processed_count, file_index>>
    /\ UNCHANGED pdf_files
    /\ UNCHANGED <<varsRefine, varsThresholds, varsFilename, varsDoc, varsScores, varsCalls>>
    /\ UNCHANGED <<varsText, varsService>>

\* The loop is over: main prints the summary and returns.
FinishMain ==
    /\ main_pc = "loop"
    /\ file_index = Len(pdf_files)
    /\ main_pc' = "returned"
    /\ UNCHANGED <<pdf_files, file_index, processed_count, written>>
    /\ UNCHANGED <<varsRefine, varsThresholds, varsFilename, varsDoc, varsScores, varsCalls>>
    /\ UNCHANGED <<varsText, varsService>>

InitBatch ==
    /\ IdleRefine
    /\ IdleThresholds
    /\ IdleFilename
    /\ IdleDoc
    /\ IdleScores
    /\ IdleCalls
    /\ IdleBatch
    /\ IdleText
    /\ IdleService

NextBatch ==
    \/ \E exists \in BOOLEAN, files \in FileLists : StartMain(exists, files)
    \/ \E pages \in BatchDocuments, readable \in BOOLEAN,
          write \in WriteOutcomes, fallback_write \in WriteOutcomes :
           ProcessFile(pages, readable, write, fallback_write)
    \/ FinishMain

SpecBatch == InitBatch /\ [][NextBatch]_vars

\* A .json file with a title and an outline.
IsOutput(content) == content.kind = "json"

\* C20: when main is over, every PDF file found in the input directory has its
\* .json file with a title and an outline, also when processing a file or
\* writing its output raised; no failure keeps later files from being processed.
C20_EveryFileWritten ==
    main_pc \in {"returned", "raised"} =>
        \A i \in 1..Len(pdf_files) : IsOutput(written[pdf_files[i]])

-----------------------------------------------------------------------------
(* One block under examination: _classify_page_headings reaches a block,     *)
(* asks _is_potential_heading and, for a potential heading, the pattern score    *)

\* An all-caps line.
AllCapsText ==
    <<"A", "N", "N", "U", "A", "L", " ", "R", "E", "P", "O", "R", "T">>

\* A line of lower-case words.
LowerCaseText ==
    <<"p", "l", "a", "i", "n", " ", "b", "o", "d", "y", " ", "t", "e", "x", "t">>

\* A heading written as a short sentence.
ShortSentenceText ==
    <<"G", "e", "t", "t", "i", "n", "g", " ", "s", "t", "a", "r", "t", "e", "d",
      ".">>

\* A number, a space and a word character that is no letter.
WeakNumberedText ==
    <<"1", " ", "2", "0", "2", "4", " ", "p", "l", "a", "n">>

\* Letters separated by spaced symbols.
SpacedSymbolsText ==
    <<"a", " ", "-", " ", "b", " ", "-", " ", "c">>

\* Mostly symbols.
SymbolsText ==
    <<"+", "-", "*", "/", "=", " ", "1", "2">>

\* A caption.
FigureText ==
    <<"F", "i", "g", "u", "r", "e", " ", "3", ":", " ", "R", "e", "v", "e", "n",
      "u", "e">>

\* Fourteen words without punctuation.
FourteenWordsText ==
    <<"o", "n", "e", " ", "t", "w", "o", " ", "t", "h", "r", "e", "e", " ", "f",
      "o", "u", "r", " ", "f", "i", "v", "e", " ", "s", "i", "x", " ", "s", "e",
      "v", "e", "n", " ", "e", "i", "g", "h", "t", " ", "n", "i", "n", "e", " ",
      "t", "e", "n", " ", "e", "l", "e", "v", "e", "n", " ", "t", "w", "e", "l",
      "v", "e", " ", "t", "h", "i", "r", "t", "e", "e", "n", " ", "f", "o", "u",
      "r", "t", "e", "e", "n">>

\* A question.
QuestionText ==
    <<"W", "h", "y", " ", "n", "o", "w", "?">>

\* A numbered section heading.
NumberedText ==
    <<"1", ".", " ", "I", "n", "t", "r", "o", "d", "u", "c", "t", "i", "o", "n">>

\* Shorter than min_heading_length.
TooShortText ==
    <<"a", "b">>

\* Two sentences, the last one an exclamation.
TwoSentencesText ==
    <<"W", "a", "i", "t", ".", " ", "S", "t", "o", "p", "!">>

\* The texts a block under examination can start with.
StartTexts == {AllCapsText,
               LowerCaseText,
               ShortSentenceText,
               WeakNumberedText,
               SpacedSymbolsText,
               SymbolsText,
               FigureText,
               FourteenWordsText,
               QuestionText,
               NumberedText,
               TooShortText,
               TwoSentencesText}

\* The words the extractor can add to the text of the block.
MoreWords == {<<"m", "o", "r", "e">>, <<"e", "n", "d", ".">>, <<"D", "o", "n", "e", "!">>}

\* The texts another block of the document can have.
OtherTexts == {<<"2", ".", "1", " ", "S", "c", "o", "p", "e">>, <<"A", "p", "p", "e", "n", "d", "i", "x">>}

\* The extractor hands over a block with its stripped text.
ChooseText(t) ==
    /\ block_text = <<>>
    /\ block_text' = t
    /\ UNCHANGED <<other_texts, words_added, is_potential, block_pattern_score>>
    /\ UNCHANGED <<varsRefine, varsThresholds, varsFilename, varsDoc>>
    /\ UNCHANGED <<varsScores, varsCalls, varsBatch, varsService>>

\* _process_text_block joins one more span text to the block, after a space.
AddWord(w) ==
    /\ block_text # <<>>
    /\ is_potential = "unset"
    /\ words_added < MaxWordsAdded
    /\ block_text' = block_text \o <<" ">> \o w
    /\ words_added' = words_added + 1
    /\ UNCHANGED <<other_texts, is_potential, block_pattern_score>>
    /\ UNCHANGED <<varsRefine, varsThresholds, varsFilename, varsDoc>>
    /\ UNCHANGED <<varsScores, varsCalls, varsBatch, varsService>>

\* The document has one more block.
AddOtherText(t) ==
    /\ is_potential = "unset"
    /\ Len(other_texts) < MaxOtherTexts
    /\ other_texts' = Append(other_texts, t)
    /\ UNCHANGED <<block_text, words_added, is_potential, block_pattern_score>>
    /\ UNCHANGED <<varsRefine, varsThresholds, varsFilename, varsDoc>>
    /\ UNCHANGED <<varsScores, varsCalls, varsBatch, varsService>>

\* The document of the block under examination, as _analyze_document_structure sees it.
TextDocument(t, others) ==
    <<[page_number |-> 1,
       blocks |-> <<Block(<<Span(t, DefaultSize, "Helvetica", FALSE)>>)>>
                  \o [i \in 1..Len(others) |->
                         Block(<<Span(others[i], DefaultSize, "Helvetica", FALSE)>>)]]>>

\* _classify_page_headings on the block, lines 262-277: a block that is no
\* potential heading is skipped before any score is computed.
ExamineBlock ==
    /\ block_text # <<>>
    /\ is_potential = "unset"
    /\ is_potential' = IF _is_potential_heading(block_text) THEN "True" ELSE "False"
    /\ block_pattern_score' =
          IF _is_potential_heading(block_text)
          THEN _get_pattern_score(block_text, HasNumberedSections(TextDocument(block_text, other_texts)))
          ELSE -1
    /\ UNCHANGED <<block_text, other_texts, words_added>>
    /\ UNCHANGED <<varsRefine, varsThresholds, varsFilename, varsDoc>>
    /\ UNCHANGED <<varsScores, varsCalls, varsBatch, varsService>>

InitText ==
    /\ IdleRefine
    /\ IdleThresholds
    /\ IdleFilename
    /\ IdleDoc
    /\ IdleScores
    /\ IdleCalls
    /\ IdleBatch
    /\ IdleText
    /\ IdleService

NextText ==
    \/ \E t \in StartTexts : ChooseText(t)
    \/ \E w \in MoreWords : AddWord(w)
    \/ \E t \in OtherTexts : AddOtherText(t)
    \/ ExamineBlock

SpecText == InitText /\ [][NextText]_vars

\* The forms of the pattern list other than the all-caps rule.
MatchesOtherForm(t) ==
    \/ MatchChapter(t) \/ MatchNumbered(t) \/ MatchNumbered2(t) \/ MatchNumbered3(t)
    \/ MatchRoman(t) \/ MatchLetterEnum(t)
    \/ MatchHeadingWord(t) \/ MatchContents(t) \/ MatchPhrase(t)
    \/ MatchWeakNumbered(t) \/ MatchWeakNumbered2(t)

\* C22: a text with a lower-case letter that has none of the chapter, numeric,
\* roman-numeral, letter-enumeration or keyword forms does not get pattern
\* score 2: the all-caps rule applies to all-caps text only.
C22_AllCapsOnly ==
    (/\ block_pattern_score # -1
     /\ \E i \in 1..Len(block_text) : block_text[i] \in Lower
     /\ ~MatchesOtherForm(block_text))
        => block_pattern_score # 2

\* C23: in classify_headings a block whose text has the weak numeric prefix and
\* none of the strong forms gets pattern score 1 when no other block of the
\* document has a numeric section prefix.
C23_WeakPrefixScoresOne ==
    (/\ block_pattern_score # -1
     /\ MatchWeakNumbered(block_text)
     /\ ~MatchesHeadingPattern(block_text)
     /\ \A i \in 1..Len(other_texts) : ~MatchNumberedSection(other_texts[i]))
        => block_pattern_score = 1

\* The number of sentence marks in a text.
SentenceMarks(t) == Cardinality({i \in 1..Len(t) : t[i] \in {".", "!", "?"}})

\* C24: a single sentence of at most 15 words that ends in '.' or '!' and
\* passes the length, alphanumeric-ratio and caption checks is a potential heading.
C24_ShortSentenceEligible ==
    (/\ is_potential # "unset"
     /\ EndsWith(block_text, ".") \/ EndsWith(block_text, "!")
     /\ SentenceMarks(block_text) = 1
     /\ Len(split(block_text)) <= MaxSentenceWords
     /\ Len(block_text) >= min_heading_length /\ Len(block_text) <= max_heading_length
     /\ 10 * AlphaChars(block_text) >= 6 * Len(block_text)
     /\ ~MatchCaption(block_text))
        => is_potential = "True"

\* The letters and digits of a text.
AlnumChars(t) == Cardinality({i \in 1..Len(t) : t[i] \in Letter \cup Digit})

\* C25: a text whose letters and digits are less than 60% of its length is no
\* potential heading.
C25_AlnumRatioRejects ==
    (is_potential # "unset" /\ 10 * AlnumChars(block_text) < 6 * Len(block_text))
        => is_potential = "False"

-----------------------------------------------------------------------------
(* The service: the /extract-headings handler of main.py answers an upload *)

\* max_size = 50 * 1024 * 1024
max_size == 50 * 1024 * 1024

HTTP_400_BAD_REQUEST == 400
HTTP_500_INTERNAL_SERVER_ERROR == 500
HTTP_200_OK == 200

\* The file names of an upload; the empty one stands for a missing name.
UploadNames == {<<>>, <<"r", "e", "p", "o", "r", "t", ".", "p", "d", "f">>, <<"R", "E", "P", "O", "R", "T", ".", "P", "D", "F">>,
                <<"n", "o", "t", "e", "s", ".", "t", "x", "t">>, <<"p", "d", "f">>}

\* len(contents), in bytes.
ContentSizes == {0, 1, max_size, max_size + 1}

\* Where an exception that is no HTTPException is raised inside the try block:
\* in file.read(), in the classifier calls, or when the response is built.
Failures == {"none", "read", "classifier", "response"}

\* The uploads: parsed tells whether extract_text_and_layout returns a result
\* (it returns None for every exception of its own, pdf_parser.py 87-89).
Requests == [filename : UploadNames, size : ContentSizes, parsed : BOOLEAN,
             failure : Failures]

\* str.endswith(suffix)
endswith(t, suffix) ==
    /\ Len(t) >= Len(suffix)
    /\ SubSeq(t, Len(t) - Len(suffix) + 1, Len(t)) = suffix

DotPdf == <<".", "p", "d", "f">>

\* The try block, lines 195-268: what it raises, or the response it returns.
TryBlock(req) ==
    IF req.failure = "read" THEN [raised |-> "Exception", status |-> 0]
    ELSE IF req.size > max_size THEN [raised |-> "HTTPException", status |-> HTTP_400_BAD_REQUEST]
    ELSE IF req.size = 0 THEN [raised |-> "HTTPException", status |-> HTTP_400_BAD_REQUEST]
    ELSE IF ~req.parsed THEN [raised |-> "HTTPException", status |-> HTTP_400_BAD_REQUEST]
    ELSE IF req.failure \in {"classifier", "response"}
    THEN [raised |-> "Exception", status |-> 0]
    ELSE [raised |-> "none", status |-> HTTP_200_OK]

\* The handler without its except HTTPException clause: every exception of the
\* try block is answered by the general clause.
extract_headings_CatchAll(req) ==
    IF req.filename = <<>> THEN HTTP_400_BAD_REQUEST
    ELSE IF ~endswith(lower(req.filename), DotPdf) THEN HTTP_400_BAD_REQUEST
    ELSE LET tried == TryBlock(req)
         IN  IF tried.raised = "none" THEN tried.status ELSE HTTP_500_INTERNAL_SERVER_ERROR

\* extract_headings, lines 182-279: the status code of the answer.
extract_headings(req) ==
    IF req.filename = <<>> THEN HTTP_400_BAD_REQUEST
    ELSE IF ~endswith(lower(req.filename), DotPdf) THEN HTTP_400_BAD_REQUEST
    ELSE LET tried == TryBlock(req)
         IN  IF tried.raised = "HTTPException" THEN tried.status
             ELSE IF tried.raised = "Exception" THEN HTTP_500_INTERNAL_SERVER_ERROR
             ELSE tried.status

\* The handler answers the upload.
Answer ==
    /\ response = 0
    /\ response' = extract_headings(request)
    /\ UNCHANGED request
    /\ UNCHANGED <<varsRefine, varsThresholds, varsFilename, varsDoc>>
    /\ UNCHANGED <<varsScores, varsCalls, varsBatch, varsText>>

InitService ==
    /\ IdleRefine
    /\ IdleThresholds
    /\ IdleFilename
    /\ IdleDoc
    /\ IdleScores
    /\ IdleCalls
    /\ IdleBatch
    /\ IdleText
    /\ request \in Requests
    /\ response = 0

NextService == Answer

SpecService == InitService /\ [][NextService]_vars

\* The upload has a file name that ends in .pdf, whatever the case.
NamedPdf(req) == req.filename # <<>> /\ endswith(lower(req.filename), DotPdf)

\* An exception that is no HTTP error is raised while the upload is handled.
RaisesOther(req) ==
    /\ NamedPdf(req)
    /\ \/ req.failure = "read"
       \/ /\ req.failure \in {"classifier", "response"}
          /\ req.size > 0 /\ req.size <= max_size /\ req.parsed

\* C27: the answer is 400 when the file name is missing or does not end in
\* .pdf, when the content exceeds 50MB or is empty, and when the parser
\* returns no result; a 400 raised inside the try block is never turned into
\* 500, and 500 is answered only for an exception that is no HTTP error.
C27_ErrorMapping ==
    response # 0 =>
        /\ ~NamedPdf(request) => response = HTTP_400_BAD_REQUEST
        /\ (/\ NamedPdf(request)
            /\ request.failure # "read"
            /\ request.size > max_size \/ request.size = 0 \/ ~request.parsed)
               => response = HTTP_400_BAD_REQUEST
        /\ response = HTTP_500_INTERNAL_SERVER_ERROR <=> RaisesOther(request)

\* An upload named in upper case with one byte more than 50MB has been
\* answered 400 from inside the try block.
C27_Witness ==
    /\ response = HTTP_400_BAD_REQUEST
    /\ request.filename = <<"R", "E", "P", "O", "R", "T", ".", "P", "D", "F">>
    /\ request.size = max_size + 1
    /\ request.failure = "none"

====
